---- MODULE Spec2Model ----
(***************************************************************************)
(* libflexkube: the driver (main), the etcd cluster wrapper and the        *)
(* containers engine, as a state machine.                                  *)
(*                                                                         *)
(* One run of the driver reads the persisted state, refreshes the observed *)
(* state of the containers, deploys and saves the new state.  Every RPC    *)
(* (etcd membership call, container daemon call) is one step that either   *)
(* succeeds or fails.                                                      *)
(*                                                                         *)
(* The containers engine (pkg/container/containers.go) and the             *)
(* host-configured container follow the design specification, sections     *)
(* 4.4, 4.5 and 7.                                                         *)
(*                                                                         *)
(* Two packages below the engine are followed on their own, each with its  *)
(* own specification: one Container with its lifecycle calls               *)
(* (ContainerSpec) and one Helm release (ReleaseSpec).                     *)
(***************************************************************************)
EXTENDS Integers, Sequences, FiniteSets, Bags, TLC

\* Number of logical container names (keys of a ContainersState).
NumKeys == 2

Keys == 1..NumKeys

\* Runtime IDs the daemon may hand out: two per key, so that a container
\* that replaces another one gets an ID that differs from the old one.
IdsOf(k) == {2 * k - 1, 2 * k}

Ids == UNION {IdsOf(k) : k \in Keys}

\* Container specs differ by their image; config files by their content.
Images == {"img:1", "img:2"}

NoContent == "none"

Contents == {"1", "2"}

\* The resource the driver deploys: an etcd cluster or a controlplane.
Kinds == {"etcd", "controlplane"}

VARIABLES
    kind,        \* which resource this deployment is
    stateFile,   \* state.yaml: the persisted ContainersState
    previous,    \* Containers.PreviousState
    desired,     \* Containers.DesiredState
    current,     \* the engine's observed state, key -> lifecycle state
    runtime,     \* the container daemon: id -> lifecycle state
    plan,        \* sub-steps the engine still has to run in this Deploy
    log,         \* RPCs issued in this run, in order
    pc,          \* position of the driver
    exit,        \* how the last run ended
    prevAtStart, \* PreviousState as it was read at the start of the run
    etcdMembers  \* names of the members registered in the live etcd cluster

driverVars ==
    <<kind, stateFile, previous, desired, current, runtime, plan, log, pc,
      exit, prevAtStart, etcdMembers>>

\* The packages below the engine, each followed on its own: one Container
\* object with the daemon it talks to.
VARIABLES
    container,   \* a Container: Config, Runtime and Status
    dockerd,     \* the containers of the Docker daemon: ID -> status
    last         \* the last call made on the Container and what it returned

containerVars == <<container, dockerd, last>>

\* One Helm release and the cluster it is installed on.
VARIABLES
    deployed,    \* whether the cluster stores the release
    rlast        \* the last call made on the Release and what it returned

releaseVars == <<deployed, rlast>>

coreVars == <<driverVars, containerVars, releaseVars>>

\* The file state.yaml as the driver reads and writes it.
VARIABLES
    disk,        \* state.yaml: whether it exists, and its bytes
    persisted,   \* the state the driver wrote last, while the file is as
                 \* the driver left it
    flast        \* the last access of the driver to the file

fileVars == <<disk, persisted, flast>>

\* One Controlplane object, from the YAML it is decoded from to the
\* resource it gives.
VARIABLES
    cplane,      \* the Controlplane the process holds
    cpres        \* the last call on it: what it was given, what it returned

controlplaneVars == <<cplane, cpres>>

\* One etcd Cluster object, decoded, validated and turned into a resource.
VARIABLES
    etcdCluster, \* the Cluster the process holds
    etcdRes      \* the last call on it: what it was given, what it returned

clusterVars == <<etcdCluster, etcdRes>>

\* The Docker runtime and the files of one container of the daemon.
VARIABLES
    tree,        \* the paths that exist in the container
    dlast        \* the last call on the runtime and what it returned

dockerVars == <<tree, dlast>>

\* The units followed on their own besides Container and Release.
unitVars == <<fileVars, controlplaneVars, clusterVars, dockerVars>>

libraryVars == <<containerVars, releaseVars, unitVars>>

vars == <<driverVars, libraryVars>>

Empty == [k \in {} |-> 0]

\* All ContainersState values a user configuration can ask for.
DesiredStates ==
    UNION {[S -> [image : Images, files : Contents]] : S \in SUBSET Keys}

Without(f, k) == [x \in DOMAIN f \ {k} |-> f[x]]

With(f, k, v) == [x \in DOMAIN f \cup {k} |-> IF x = k THEN v ELSE f[x]]

Entry(op, key, ok, id, content, eps) ==
    [op |-> op, key |-> key, ok |-> ok, id |-> id, content |-> content,
     eps |-> eps]

\* A nil error, and a nil *types.ContainerStatus.
Nil == "nil"

NilStatus == [nil |-> TRUE, id |-> "", status |-> ""]

\* types.ContainerStatus, as far as the Container looks at it.
ContainerStatus(id, status) == [nil |-> FALSE, id |-> id, status |-> status]

\* What a call on the Container returned: the error, the runtime calls it
\* made in order, the answer of the daemon to the status query if there was
\* one, and the Container as it was before the call.
Returned(op, err, calls, reply, before) ==
    [op |-> op, err |-> err, calls |-> calls, reply |-> reply,
     before |-> before]

\* The zero value of Container.
ZeroContainer == [name |-> "", image |-> "", docker |-> FALSE,
                  status |-> NilStatus]

ContainerInit ==
    /\ container = ZeroContainer
    /\ dockerd = Empty
    /\ last = Returned("none", Nil, <<>>, "none", ZeroContainer)

\* A nil error of the release package: errors are messages, a message is
\* the sequence of its parts.
NilError == <<>>

\* What a call on the Release returned: the error, the methods of Release
\* it entered, the runs of Helm actions with the outcome of every attempt,
\* what Exists answered, whether the release was stored before, and whether
\* the call came right after an Uninstall that returned nil.
ReleaseReturned(op, err, methods, runs, found, before, ping, chartOk) ==
    [op |-> op, err |-> err, methods |-> methods, runs |-> runs,
     found |-> found, before |-> before,
     uninstalled |-> rlast.op = "Uninstall" /\ rlast.err = NilError,
     ping |-> ping, chart |-> chartOk]

ReleaseInit ==
    /\ deployed = FALSE
    /\ rlast = [op |-> "none", err |-> NilError, methods |-> <<>>,
                runs |-> <<>>, found |-> "none", before |-> FALSE,
                uninstalled |-> FALSE, ping |-> <<>>, chart |-> TRUE]

\* Bytes are the sequence of their lines, a line the sequence of its words
\* with "\n" as its last word when it is terminated.
NoBytes == <<>>

\* A file: whether it exists, and its bytes.
File(exists, bytes) == [exists |-> exists, bytes |-> bytes]

NoFile == File(FALSE, NoBytes)

\* The state the file is known to hold.
Holds(known, state) == [known |-> known, state |-> state]

\* What an access of the driver to state.yaml came to: the bytes it had in
\* hand, the previous state the resource was built with, the file before.
Accessed(op, err, bytes, prev, before) ==
    [op |-> op, err |-> err, bytes |-> bytes, previous |-> prev,
     before |-> before]

FileInit ==
    /\ disk = NoFile
    /\ persisted = Holds(FALSE, Empty)
    /\ flast = Accessed("none", Nil, NoBytes, Empty, NoFile)

\* A *Common: nil, or the three fields.
Common(image, ca, fp) ==
    [nil |-> FALSE, image |-> image, kubernetesCACertificate |-> ca,
     frontProxyCACertificate |-> fp]

NilCommon ==
    [nil |-> TRUE, image |-> "", kubernetesCACertificate |-> "",
     frontProxyCACertificate |-> ""]

\* A *host.Host: nil, or its SSH configuration ("" when it has none).
Host(ssh) == [nil |-> FALSE, ssh |-> ssh]

NilHost == [nil |-> TRUE, ssh |-> ""]

\* A client.Config: CA certificate and server, <<>> being no server.
Kubeconfig(ca, server) == [caCertificate |-> ca, server |-> server]

Components == {"kube-apiserver", "kube-controller-manager", "kube-scheduler"}

\* A component as its zero value.
ZeroComponent ==
    [common |-> NilCommon, host |-> NilHost,
     kubeconfig |-> Kubeconfig("", <<>>), bindAddress |-> "",
     advertiseAddress |-> "", securePort |-> 0]

\* A *ContainersState: nil, or the state.
State(st) == [nil |-> FALSE, value |-> st]

NilState == [nil |-> TRUE, value |-> Empty]

\* A Controlplane.  pki holds the certificates of PKI.Kubernetes.CA and
\* PKI.Kubernetes.FrontProxyCA, "" when the PKI has none; sound is whether
\* the components accept their other fields.
Controlplane(common, ssh, address, port, pki, components, destroy, state,
             sound) ==
    [common |-> common, ssh |-> ssh, apiServerAddress |-> address,
     apiServerPort |-> port, pki |-> pki, components |-> components,
     destroy |-> destroy, state |-> state, sound |-> sound]

ZeroControlplane ==
    Controlplane(NilCommon, "", "", 0, [ca |-> "", frontProxyCA |-> ""],
                 [n \in Components |-> ZeroComponent], FALSE, NilState, TRUE)

\* A *controlplane with its containers, or nil.
Resource(c, prev, des) ==
    [nil |-> FALSE, containers |-> c, previous |-> prev, desired |-> des]

NilResource ==
    [nil |-> TRUE, containers |-> FALSE, previous |-> Empty,
     desired |-> Empty]

\* What a call on the Controlplane returned.
Built(op, given, err, resource) ==
    [op |-> op, given |-> given, err |-> err, resource |-> resource]

ControlplaneInit ==
    /\ cplane = ZeroControlplane
    /\ cpres = Built("none", ZeroControlplane, Nil, NilResource)

\* An etcd Cluster: members is key -> Member, state the ContainersState,
\* a nil map or not.
Cluster(ssh, ca, members, state) ==
    [ssh |-> ssh, caCertificate |-> ca, members |-> members, state |-> state]

ZeroCluster == Cluster("", "", Empty, NilState)

ClusterInit ==
    /\ etcdCluster = ZeroCluster
    /\ etcdRes = Built("none", ZeroCluster, Nil, NilResource)

\* What a call on the runtime returned: the paths it was asked for, what
\* CopyFromContainer answered for each, the error, the files returned by
\* their paths.
Ran(op, asked, answers, err, files) ==
    [op |-> op, asked |-> asked, answers |-> answers, err |-> err,
     files |-> files]

DockerInit ==
    /\ tree = {}
    /\ dlast = Ran("none", <<>>, <<>>, Nil, <<>>)

Init ==
    /\ ContainerInit
    /\ ReleaseInit
    /\ FileInit
    /\ ControlplaneInit
    /\ ClusterInit
    /\ DockerInit
    /\ kind \in Kinds
    /\ stateFile = Empty
    /\ previous = Empty
    /\ desired = Empty
    /\ current = Empty
    /\ runtime = Empty
    /\ plan = <<>>
    /\ log = <<>>
    /\ pc = "idle"
    /\ exit = "none"
    /\ prevAtStart = Empty
    /\ etcdMembers = {}


(***************************************************************************)
(* The driver: main reads state.yaml and config.yaml and builds the        *)
(* resource.                                                               *)
(***************************************************************************)

\* Cluster.Validate / Controlplane.Validate: a configuration with neither
\* members nor previous state is rejected; a controlplane is either all of
\* its components or, with Destroy, none of them.
ValidConfig(k, state, d) ==
    /\ (DOMAIN d = {} => DOMAIN state # {})
    /\ (k = "controlplane" => DOMAIN d \in {{}, Keys})

StartRun(d) ==
    /\ pc = "idle"
    /\ ValidConfig(kind, stateFile, d)
    /\ previous' = stateFile
    /\ prevAtStart' = stateFile
    /\ desired' = d
    /\ current' = Empty
    /\ plan' = <<>>
    /\ log' = <<>>
    /\ pc' = "check"
    /\ exit' = "running"
    /\ UNCHANGED libraryVars
    /\ UNCHANGED <<kind, stateFile, runtime, etcdMembers>>

\* The status the runtime reports for an ID ("missing" when it has none).
Observe(rt, id) == IF id \in DOMAIN rt THEN rt[id] ELSE "missing"

\* Refreshing every key the engine knows, planned ones included.
KeysToCheckAll(prev, des) == DOMAIN prev \cup DOMAIN des

\* The keys CheckCurrentState refreshes.
KeysToCheck(prev, des) == DOMAIN prev

\* main: a CheckCurrentState error makes the driver panic.
CheckCurrentState(failed) ==
    /\ pc = "check"
    /\ failed \subseteq KeysToCheck(previous, desired)
    /\ current' = [k \in KeysToCheck(previous, desired) \ failed |->
                      IF k \in DOMAIN previous
                      THEN Observe(runtime, previous[k].id)
                      ELSE "missing"]
    /\ IF failed = {}
       THEN /\ pc' = "deploy"
            /\ exit' = exit
       ELSE /\ pc' = "exited"
            /\ exit' = "checkFailed"
    /\ UNCHANGED libraryVars
    /\ UNCHANGED <<kind, stateFile, previous, desired, runtime, plan, log,
                   prevAtStart, etcdMembers>>

(***************************************************************************)
(* The etcd cluster wrapper.                                               *)
(***************************************************************************)

\* A key stands for the map key of Cluster.Members; a name is the text built
\* from it.  propagateMember: fmt.Sprintf("etcd-%s", i), the default of
\* Member.Name (the configuration sets no name of its own).
MemberName(i) == <<"etcd-", i>>

\* updateMembers: the member object built for a removal, &member{name: name},
\* carries the map key as its name.
RemovedMemberName(name) == <<name>>

RECURSIVE SortedKeys(_)
SortedKeys(S) ==
    IF S = {} THEN <<>>
    ELSE LET m == CHOOSE x \in S : \A y \in S : x <= y
         IN  <<m>> \o SortedKeys(S \ {m})

\* propagateMember: one "etcd-<n>=https://<peer>:2380" entry for every
\* configured member, sorted.
InitialCluster(members) ==
    LET ks == SortedKeys(DOMAIN members)
    IN  [j \in 1..Len(ks) |-> [name |-> MemberName(ks[j]), peer |-> ks[j]]]

\* Marking every member as the first of a new cluster.
NewClusterAlways(state) == TRUE

\* propagateMember: if len(c.State) == 0 { m.NewCluster = true }.
NewCluster(state) == DOMAIN state = {}

\* The fields propagateMember fills in for member i.
propagateMember(state, members, i) ==
    [name           |-> MemberName(i),
     initialCluster |-> InitialCluster(members),
     newCluster     |-> NewCluster(state)]

\* The names an initial-cluster list offers.
NamesOf(list) == {list[j].name : j \in 1..Len(list)}

\* An entry of the log for a call of the etcd wrapper: name is the member
\* the call is made through (getClient) or made for.
EtcdEntry(op, key, ok, name, eps) ==
    [op |-> op, key |-> key, ok |-> ok, id |-> 0, content |-> NoContent,
     eps |-> eps, name |-> name]

\* Every member with a previous state taken for one to remove.
membersToRemoveAll(prev, des) == DOMAIN prev

membersToRemove(prev, des) == DOMAIN prev \ DOMAIN des

membersToAdd(prev, des) == DOMAIN des \ DOMAIN prev

\* The peer address configured for the member with key i.
PeerAddress(i) == "10.0.0." \o ToString(i)

\* fmt.Sprintf("%s:2379", m.peerAddress)
Endpoint(i) == PeerAddress(i) \o ":2379"

\* The endpoints of every configured member, deployed or not.
getAllEndpoints(prev, des) ==
    [e \in {Endpoint(i) : i \in DOMAIN des} |->
        Cardinality({i \in DOMAIN des : Endpoint(i) = e})]

\* getExistingEndpoints: one endpoint appended for each configured member
\* that has a previous state; the list, in no particular order, as a bag.
getExistingEndpoints(prev, des) ==
    LET existing == {i \in DOMAIN des : i \in DOMAIN prev}
    IN  [e \in {Endpoint(i) : i \in existing} |->
            Cardinality({i \in existing : Endpoint(i) = e})]

\* Keys for which the wrapper already issued a successful op in this run.
Called(op) == {log[i].key : i \in {j \in 1..Len(log) : log[j].op = op /\ log[j].ok}}

\* The membership update run on a fresh install as well.
NeedsMemberUpdateOnInstall(k, prev, des) == k = "etcd" /\ DOMAIN des # {}

\* Whether cluster.Deploy runs the membership update before the engine.
NeedsMemberUpdate(k, prev, des) ==
    k = "etcd" /\ DOMAIN prev # {} /\ DOMAIN des # {}

\* cluster.Deploy / controlplane.Deploy, up to the first RPC.
Deploy ==
    /\ pc = "deploy"
    /\ pc' = IF NeedsMemberUpdate(kind, previous, desired)
             THEN "getClient" ELSE "engine"
    /\ UNCHANGED libraryVars
    /\ UNCHANGED <<kind, stateFile, previous, desired, current, runtime, plan,
                   log, exit, prevAtStart, etcdMembers>>

\* updateMembers returning after the removals, without adding members.
MemberStageNoAdd(lg, prev, des) ==
    LET removed == {lg[i].key : i \in {j \in 1..Len(lg) :
                        lg[j].op = "MemberRemove" /\ lg[j].ok}}
    IN  IF membersToRemove(prev, des) \ removed # {} THEN "removeMembers"
        ELSE "engine"

\* updateMembers running its addition loop before its removal loop.
MemberStageAddFirst(lg, prev, des) ==
    LET removed == {lg[i].key : i \in {j \in 1..Len(lg) :
                        lg[j].op = "MemberRemove" /\ lg[j].ok}}
        added   == {lg[i].key : i \in {j \in 1..Len(lg) :
                        lg[j].op = "MemberAdd" /\ lg[j].ok}}
    IN  IF membersToAdd(prev, des) \ added # {} THEN "addMembers"
        ELSE IF membersToRemove(prev, des) \ removed # {} THEN "removeMembers"
        ELSE "engine"

\* Where updateMembers stands after the calls logged so far.
MemberStage(lg, prev, des) ==
    LET removed == {lg[i].key : i \in {j \in 1..Len(lg) :
                        lg[j].op = "MemberRemove" /\ lg[j].ok}}
        added   == {lg[i].key : i \in {j \in 1..Len(lg) :
                        lg[j].op = "MemberAdd" /\ lg[j].ok}}
    IN  IF membersToRemove(prev, des) \ removed # {} THEN "removeMembers"
        ELSE IF membersToAdd(prev, des) \ added # {} THEN "addMembers"
        ELSE "engine"

\* The wrapper going on although a call returned an error.
OnEtcdResultIgnoreError(ok, stage) == stage

\* cluster.Deploy and updateMembers return at the first error; the driver
\* then panics.  Otherwise the wrapper goes on to its next stage.
OnEtcdResult(ok, stage) == IF ok THEN stage ELSE "exited"

\* getClient: firstMember takes whichever member the map iteration yields.
GetClient(m, ok) ==
    /\ pc = "getClient"
    /\ m \in DOMAIN desired
    /\ log' = Append(log, EtcdEntry("getClient", m, ok,
                                    propagateMember(prevAtStart, desired, m).name,
                                    getExistingEndpoints(previous, desired)))
    /\ pc' = OnEtcdResult(ok, MemberStage(log', previous, desired))
    /\ exit' = IF pc' = "exited" THEN "deployFailed" ELSE exit
    /\ UNCHANGED libraryVars
    /\ UNCHANGED <<kind, stateFile, previous, desired, current, runtime, plan,
                   prevAtStart, etcdMembers>>

\* updateMembers, first loop: one member.remove call.  The cluster drops
\* the member registered under the name the call is made for, if there is
\* one.
MemberRemove(k, ok) ==
    /\ pc = "removeMembers"
    /\ k \in membersToRemove(previous, desired) \ Called("MemberRemove")
    /\ log' = Append(log, EtcdEntry("MemberRemove", k, ok,
                                    RemovedMemberName(k), {}))
    /\ etcdMembers' = IF ok THEN etcdMembers \ {RemovedMemberName(k)}
                      ELSE etcdMembers
    /\ pc' = OnEtcdResult(ok, MemberStage(log', previous, desired))
    /\ exit' = IF pc' = "exited" THEN "deployFailed" ELSE exit
    /\ UNCHANGED libraryVars
    /\ UNCHANGED <<kind, stateFile, previous, desired, current, runtime, plan,
                   prevAtStart>>

\* updateMembers, second loop: one member.add call registers the member.
MemberAdd(k, ok) ==
    /\ pc = "addMembers"
    /\ k \in membersToAdd(previous, desired) \ Called("MemberAdd")
    /\ log' = Append(log, EtcdEntry("MemberAdd", k, ok,
                                    propagateMember(prevAtStart, desired, k).name,
                                    {}))
    /\ etcdMembers' =
         IF ok
         THEN etcdMembers \cup {propagateMember(prevAtStart, desired, k).name}
         ELSE etcdMembers
    /\ pc' = OnEtcdResult(ok, MemberStage(log', previous, desired))
    /\ exit' = IF pc' = "exited" THEN "deployFailed" ELSE exit
    /\ UNCHANGED libraryVars
    /\ UNCHANGED <<kind, stateFile, previous, desired, current, runtime, plan,
                   prevAtStart>>


(***************************************************************************)
(* The containers engine (spec.md 4.4, 4.5).                               *)
(***************************************************************************)

\* A change of the config files taken for a change of the container.
DiffFilesRecreate(p, d) ==
    IF p.image # d.image \/ p.files # d.files THEN "recreate" ELSE "none"

\* HCC.Diff: recreate when the container spec differs, files-only when only
\* the config files differ.
Diff(p, d) ==
    IF p.image # d.image THEN "recreate"
    ELSE IF p.files # d.files THEN "files-only"
    ELSE "none"

Step(op, key, inCreate) == [op |-> op, key |-> key, inCreate |-> inCreate]

\* Starting the new container before its files are in place.
AddStepsStartFirst(k) ==
    <<Step("create", k, TRUE), Step("start", k, TRUE), Step("copy", k, TRUE)>>

AddSteps(k) ==
    <<Step("create", k, TRUE), Step("copy", k, TRUE), Step("start", k, TRUE)>>

RemoveSteps(k) == <<Step("stop", k, FALSE), Step("delete", k, FALSE)>>

\* Starting the container whatever its observed state.
StartAlways(cur, k) == <<Step("start", k, FALSE)>>

StartIfNotRunning(cur, k) ==
    IF cur[k] = "running" THEN <<>> ELSE <<Step("start", k, FALSE)>>

\* A container the daemon no longer knows is treated as missing: there is
\* nothing to stop, and deleting it (not-found counts as deleted) drops the
\* stale entry.
ForgetSteps(k) == <<Step("delete", k, FALSE)>>

\* Planning rules 1-3 for one key.
StepsFor(prev, des, cur, k) ==
    IF k \notin DOMAIN des
    THEN IF cur[k] = "missing" THEN ForgetSteps(k) ELSE RemoveSteps(k)
    ELSE IF k \notin DOMAIN prev
    THEN AddSteps(k)
    ELSE IF cur[k] = "missing"
    THEN ForgetSteps(k) \o AddSteps(k)
    ELSE IF Diff(prev[k], des[k]) = "recreate"
    THEN RemoveSteps(k) \o AddSteps(k)
    ELSE IF Diff(prev[k], des[k]) = "files-only"
    THEN <<Step("copy", k, FALSE)>> \o StartIfNotRunning(cur, k)
    ELSE StartIfNotRunning(cur, k)

\* Visiting all keys by key alone, removals and additions interleaved.
KeyOrderByKey(prev, des) == SortedKeys(DOMAIN prev \cup DOMAIN des)

\* Visiting the desired keys only.
KeyOrderNoRemovals(prev, des) == SortedKeys(DOMAIN des)

\* The order in which Deploy visits the keys: removals first, then the
\* desired keys, each group by key.
KeyOrder(prev, des) ==
    SortedKeys(DOMAIN prev \ DOMAIN des) \o SortedKeys(DOMAIN des)

RECURSIVE PlanOver(_, _, _, _)
PlanOver(ks, prev, des, cur) ==
    IF ks = <<>> THEN <<>>
    ELSE StepsFor(prev, des, cur, Head(ks)) \o PlanOver(Tail(ks), prev, des, cur)

Plan(prev, des, cur) == PlanOver(KeyOrder(prev, des), prev, des, cur)

\* Containers.Deploy: plan, and return at once when there is nothing to do.
ContainersDeploy ==
    /\ pc = "engine"
    /\ plan' = Plan(previous, desired, current)
    /\ pc' = IF plan' = <<>> THEN "save" ELSE "steps"
    /\ UNCHANGED libraryVars
    /\ UNCHANGED <<kind, stateFile, previous, desired, current, runtime, log,
                   exit, prevAtStart, etcdMembers>>

\* IDs the daemon will not hand out again: those in use and those recorded.
UsedIds ==
    DOMAIN runtime
      \cup {previous[k].id : k \in DOMAIN previous}
      \cup {prevAtStart[k].id : k \in DOMAIN prevAtStart}

\* The pass going on after a failed sub-step.
AfterStepContinue(ok, rest) ==
    IF ok /\ rest = <<>> THEN "save" ELSE "steps"

\* The state of the pass after a sub-step: a failure returns immediately.
AfterStep(ok, rest) ==
    IF ~ok THEN "exited" ELSE IF rest = <<>> THEN "save" ELSE "steps"

StepDone(ok) ==
    /\ pc' = AfterStep(ok, Tail(plan))
    /\ plan' = IF ok THEN Tail(plan) ELSE plan
    /\ exit' = IF pc' = "exited" THEN "deployFailed" ELSE exit

\* The ID the daemon gives a new container.
NewId(k) ==
    CHOOSE i \in IdsOf(k) \ UsedIds : \A j \in IdsOf(k) \ UsedIds : i <= j

HeadIs(op) == pc = "steps" /\ plan # <<>> /\ Head(plan).op = op

Stop(ok) ==
    /\ HeadIs("stop")
    /\ LET k  == Head(plan).key
           id == previous[k].id
       IN  /\ ok => id \in DOMAIN runtime
           /\ log' = Append(log, Entry("stop", k, ok, id, NoContent, {}))
           /\ runtime' = IF ok THEN [runtime EXCEPT ![id] = "stopped"]
                         ELSE runtime
           /\ previous' = IF ok THEN [previous EXCEPT ![k].state = "stopped"]
                          ELSE previous
    /\ StepDone(ok)
    /\ UNCHANGED libraryVars
    /\ UNCHANGED <<kind, stateFile, desired, current, prevAtStart, etcdMembers>>

\* The runtime reports a container it does not know as deleted.
Delete(ok) ==
    /\ HeadIs("delete")
    /\ LET k  == Head(plan).key
           id == previous[k].id
       IN  /\ log' = Append(log, Entry("delete", k, ok, id, NoContent, {}))
           /\ runtime' = IF ok /\ id \in DOMAIN runtime
                         THEN Without(runtime, id) ELSE runtime
           /\ previous' = IF ok THEN Without(previous, k) ELSE previous
    /\ StepDone(ok)
    /\ UNCHANGED libraryVars
    /\ UNCHANGED <<kind, stateFile, desired, current, prevAtStart, etcdMembers>>

Create(ok) ==
    /\ HeadIs("create")
    /\ ok => IdsOf(Head(plan).key) \ UsedIds # {}
    /\ LET k  == Head(plan).key
           id == IF ok THEN NewId(k) ELSE 0
       IN  /\ log' = Append(log, Entry("create", k, ok, id, NoContent, {}))
           /\ runtime' = IF ok THEN With(runtime, id, "created") ELSE runtime
           /\ previous' = IF ok
                          THEN With(previous, k,
                                    [image |-> desired[k].image,
                                     files |-> NoContent,
                                     id |-> id, state |-> "created"])
                          ELSE previous
    /\ StepDone(ok)
    /\ UNCHANGED libraryVars
    /\ UNCHANGED <<kind, stateFile, desired, current, prevAtStart, etcdMembers>>

\* A failed copy leaving the new container behind.
AfterFailedCopyKeep(rt, id, inCreate) == rt

\* HCC.Create: if a file copy fails, delete the container.
AfterFailedCopy(rt, id, inCreate) ==
    IF inCreate /\ id \in DOMAIN rt THEN Without(rt, id) ELSE rt

\* Copying the config files.  When the copy that belongs to HCC.Create
\* fails, Create deletes the container it has just made.
CopyFiles(ok) ==
    /\ HeadIs("copy")
    /\ LET k  == Head(plan).key
           id == previous[k].id
       IN  /\ ok => id \in DOMAIN runtime
           /\ log' = Append(log, Entry("copy", k, ok, id, desired[k].files, {}))
           /\ runtime' = IF ok THEN runtime
                         ELSE AfterFailedCopy(runtime, id, Head(plan).inCreate)
           /\ previous' = IF ok
                          THEN [previous EXCEPT ![k].files = desired[k].files]
                          ELSE previous
    /\ StepDone(ok)
    /\ UNCHANGED libraryVars
    /\ UNCHANGED <<kind, stateFile, desired, current, prevAtStart, etcdMembers>>

\* The members an etcd process registers when it starts: a member marked
\* as new-cluster bootstraps the cluster its initial-cluster list names, any
\* other joins the cluster as it is.
Bootstrap(knd, m, members) ==
    IF knd = "etcd" /\ m.newCluster THEN NamesOf(m.initialCluster)
    ELSE members

Start(ok) ==
    /\ HeadIs("start")
    /\ LET k  == Head(plan).key
           id == previous[k].id
       IN  /\ ok => id \in DOMAIN runtime
           /\ log' = Append(log, Entry("start", k, ok, id, NoContent, {}))
           /\ runtime' = IF ok THEN [runtime EXCEPT ![id] = "running"]
                         ELSE runtime
           /\ previous' = IF ok THEN [previous EXCEPT ![k].state = "running"]
                          ELSE previous
           /\ etcdMembers' =
                IF ok
                THEN Bootstrap(kind, propagateMember(prevAtStart, desired, k),
                               etcdMembers)
                ELSE etcdMembers
    /\ StepDone(ok)
    /\ UNCHANGED libraryVars
    /\ UNCHANGED <<kind, stateFile, desired, current, prevAtStart>>

\* What main writes to state.yaml once Deploy has returned without error.
StateToYaml(prev) == prev

SaveState ==
    /\ pc = "save"
    /\ stateFile' = StateToYaml(previous)
    /\ pc' = "exited"
    /\ exit' = "ok"
    /\ UNCHANGED libraryVars
    /\ UNCHANGED <<kind, previous, desired, current, runtime, plan, log,
                   prevAtStart, etcdMembers>>

\* The process is gone and with it the resource it held in memory.  The
\* model stops following containers that no persisted state refers to: no
\* later run can address them.  Likewise a cluster without persisted state:
\* the next run bootstraps a new one.
Finish ==
    /\ pc = "exited"
    /\ pc' = "idle"
    /\ exit' = "none"
    /\ previous' = Empty
    /\ prevAtStart' = Empty
    /\ desired' = Empty
    /\ current' = Empty
    /\ plan' = <<>>
    /\ log' = <<>>
    /\ runtime' = [i \in DOMAIN runtime
                       \cap {stateFile[k].id : k \in DOMAIN stateFile} |->
                     runtime[i]]
    /\ etcdMembers' = IF stateFile = Empty THEN {} ELSE etcdMembers
    /\ UNCHANGED libraryVars
    /\ UNCHANGED <<kind, stateFile>>

(***************************************************************************)
(* The environment, between runs: a container is removed behind the        *)
(* engine's back.                                                          *)
(***************************************************************************)

Vanish(id) ==
    /\ pc = "idle"
    /\ id \in DOMAIN runtime
    /\ runtime' = Without(runtime, id)
    /\ UNCHANGED libraryVars
    /\ UNCHANGED <<kind, stateFile, previous, desired, current, plan, log, pc,
                   exit, prevAtStart, etcdMembers>>

Next ==
    \/ \E d \in DesiredStates : StartRun(d)
    \/ \E failed \in SUBSET Keys : CheckCurrentState(failed)
    \/ Deploy
    \/ \E m \in Keys, ok \in BOOLEAN : GetClient(m, ok)
    \/ \E k \in Keys, ok \in BOOLEAN : MemberRemove(k, ok)
    \/ \E k \in Keys, ok \in BOOLEAN : MemberAdd(k, ok)
    \/ ContainersDeploy
    \/ \E ok \in BOOLEAN : Stop(ok)
    \/ \E ok \in BOOLEAN : Delete(ok)
    \/ \E ok \in BOOLEAN : Create(ok)
    \/ \E ok \in BOOLEAN : CopyFiles(ok)
    \/ \E ok \in BOOLEAN : Start(ok)
    \/ SaveState
    \/ Finish
    \/ \E id \in Ids : Vanish(id)

Spec == Init /\ [][Next]_vars


(***************************************************************************)
(* pkg/container: one Container and its lifecycle calls.  Every call is    *)
(* one step: it validates the Container, selects the runtime, talks to the *)
(* daemon and stores the status it got.                                    *)
(***************************************************************************)

ConfigNames == {"", "etcd"}

ConfigImages == {"", "img:1"}

ContainerIDs == {"c1", "c2"}

\* The user fills in the Container, or restores it from a state file.
Configure(name, image, docker) ==
    /\ container' = [container EXCEPT !.name = name, !.image = image,
                                      !.docker = docker]
    /\ container' # container
    /\ last' = Returned("none", Nil, <<>>, "none", container)
    /\ UNCHANGED <<dockerd, driverVars, releaseVars, unitVars>>

\* Container.Validate.
Validate(c) ==
    IF c.name = "" THEN "name must be set"
    ELSE IF c.image = "" THEN "image must be set"
    ELSE IF ~c.docker THEN "docker runtime must be set"
    ELSE Nil

\* A call that got as far as selecting the runtime.
Selected(err) == [err |-> err, calls |-> <<"select">>]

\* New that selects the runtime before it validates.
NewSelectFirst(c, selectOk) ==
    IF ~selectOk THEN Selected("unable to determine container runtime")
    ELSE IF Validate(c) # Nil
    THEN Selected("container configuration validation failed")
    ELSE Selected(Nil)

\* New: Validate, then selectRuntime.
New(c, selectOk) ==
    IF Validate(c) # Nil
    THEN [err |-> "container configuration validation failed", calls |-> <<>>]
    ELSE IF ~selectOk THEN Selected("unable to determine container runtime")
    ELSE Selected(Nil)

\* FromStatus checking only that there is a status.
FromStatusAnyID(c) ==
    IF c.status.nil THEN "can't create container instance from empty status"
    ELSE Nil

\* container.FromStatus.
FromStatus(c) ==
    IF c.status.nil THEN "can't create container instance from empty status"
    ELSE IF c.status.id = ""
    THEN "can't create container instance from status without id"
    ELSE Nil

\* Container.ToInstance: New, then FromStatus.
ToInstance(c, selectOk) ==
    LET nc == New(c, selectOk)
    IN  IF nc.err # Nil THEN nc
        ELSE [err |-> FromStatus(c), calls |-> nc.calls]

\* How the daemon answers a status query for id.
Inspect(d, id, ok) ==
    IF ~ok THEN "error" ELSE IF id \in DOMAIN d THEN "found" ELSE "notFound"

\* runtime.Status: a container the daemon does not know has a status with
\* an empty ID; any other error of the daemon is returned.
RuntimeStatus(d, id, ok) ==
    CASE Inspect(d, id, ok) = "error" ->
           [err |-> "can't check status of container", status |-> NilStatus]
      [] Inspect(d, id, ok) = "notFound" ->
           [err |-> Nil, status |-> ContainerStatus("", "")]
      [] OTHER ->
           [err |-> Nil, status |-> ContainerStatus(id, d[id])]

\* Storing whatever the status query returned.
updateStatusAlways(c, s) == [c EXCEPT !.status = s.status]

\* containerInstance.updateStatus: on an error the Container is left alone.
updateStatus(c, s) ==
    IF s.err # Nil THEN c ELSE [c EXCEPT !.status = s.status]

\* The outcome of a call: the Container and the daemon after it, and what
\* is recorded about it.
Outcome(c, d, err, calls, reply) ==
    [container |-> c, dockerd |-> d, err |-> err, calls |-> calls,
     reply |-> reply]

\* The tail recording the ID although the status read failed.
ThenUpdateStatusKeepID(c, d, id, calls, statusOk) ==
    LET s == RuntimeStatus(d, id, statusOk)
    IN  Outcome(IF s.err # Nil
                THEN [c EXCEPT !.status = ContainerStatus(id, "")]
                ELSE updateStatus(c, s),
                d, s.err, calls \o <<"Status">>, Inspect(d, id, statusOk))

\* The tail shared by Create, Start, Stop and UpdateStatus:
\* return ci.updateStatus(c).
ThenUpdateStatus(c, d, id, calls, statusOk) ==
    LET s == RuntimeStatus(d, id, statusOk)
    IN  Outcome(updateStatus(c, s), d, s.err, calls \o <<"Status">>,
                Inspect(d, id, statusOk))

\* A call that returned the error of New or ToInstance.
Refused(c, d, r) == Outcome(c, d, r.err, r.calls, "none")

\* Container.Validate, New and ToInstance called on their own.
ContainerValidate ==
    /\ last' = Returned("Validate", Validate(container), <<>>, "none",
                        container)
    /\ UNCHANGED <<container, dockerd, driverVars, releaseVars, unitVars>>

ContainerNew(selectOk) ==
    LET nc == New(container, selectOk)
    IN  /\ last' = Returned("New", nc.err, nc.calls, "none", container)
        /\ UNCHANGED <<container, dockerd, driverVars, releaseVars, unitVars>>

ContainerToInstance(selectOk) ==
    LET ci == ToInstance(container, selectOk)
    IN  /\ last' = Returned("ToInstance", ci.err, ci.calls, "none", container)
        /\ UNCHANGED <<container, dockerd, driverVars, releaseVars, unitVars>>

\* The IDs the daemon can give a new container.
FreeIDs(d) == ContainerIDs \ DOMAIN d

\* The daemon's IDs are unique: a new container never gets the ID the
\* Container still holds for a container that is gone.
FreshIDs(c, d) == FreeIDs(d) \ {c.status.id}

\* Container.Create: New, container.Create, updateStatus.
ContainerCreate(selectOk, id, rpcOk, statusOk) ==
    LET nc == New(container, selectOk)
        o  == IF nc.err # Nil THEN Refused(container, dockerd, nc)
              ELSE IF ~rpcOk
              THEN Outcome(container, dockerd, "creating container failed",
                           nc.calls \o <<"Create">>, "none")
              ELSE ThenUpdateStatus(container, With(dockerd, id, "created"),
                                    id, nc.calls \o <<"Create">>, statusOk)
    IN  /\ id \in FreshIDs(container, dockerd)
        /\ container' = o.container
        /\ dockerd' = o.dockerd
        /\ last' = Returned("Create", o.err, o.calls, o.reply, container)
        /\ UNCHANGED <<driverVars, releaseVars, unitVars>>

\* Start and Stop returning after the runtime call, without reading the
\* status.
StartOrStopNoStatus(op, status, selectOk, rpcOk, statusOk) ==
    LET ci == ToInstance(container, selectOk)
        id == container.status.id
    IN  IF ci.err # Nil THEN Refused(container, dockerd, ci)
        ELSE IF ~rpcOk \/ id \notin DOMAIN dockerd
        THEN Outcome(container, dockerd, "runtime error",
                     ci.calls \o <<op>>, "none")
        ELSE Outcome(container, [dockerd EXCEPT ![id] = status], Nil,
                     ci.calls \o <<op>>, "none")

\* Container.Start and Container.Stop: ToInstance, the runtime call,
\* updateStatus.  The runtime call fails for a container the daemon does
\* not know.
StartOrStop(op, status, selectOk, rpcOk, statusOk) ==
    LET ci == ToInstance(container, selectOk)
        id == container.status.id
    IN  IF ci.err # Nil THEN Refused(container, dockerd, ci)
        ELSE IF ~rpcOk \/ id \notin DOMAIN dockerd
        THEN Outcome(container, dockerd, "runtime error",
                     ci.calls \o <<op>>, "none")
        ELSE ThenUpdateStatus(container, [dockerd EXCEPT ![id] = status],
                              id, ci.calls \o <<op>>, statusOk)

ContainerStart(selectOk, rpcOk, statusOk) ==
    LET o == StartOrStop("Start", "running", selectOk, rpcOk, statusOk)
    IN  /\ container' = o.container
        /\ dockerd' = o.dockerd
        /\ last' = Returned("Start", o.err, o.calls, o.reply, container)
        /\ UNCHANGED <<driverVars, releaseVars, unitVars>>

ContainerStop(selectOk, rpcOk, statusOk) ==
    LET o == StartOrStop("Stop", "exited", selectOk, rpcOk, statusOk)
    IN  /\ container' = o.container
        /\ dockerd' = o.dockerd
        /\ last' = Returned("Stop", o.err, o.calls, o.reply, container)
        /\ UNCHANGED <<driverVars, releaseVars, unitVars>>

\* Container.Delete: ToInstance, the runtime call, c.Status = nil.  Deleting
\* a container the daemon does not know succeeds.
ContainerDelete(selectOk, rpcOk) ==
    LET ci == ToInstance(container, selectOk)
        id == container.status.id
        o  == IF ci.err # Nil THEN Refused(container, dockerd, ci)
              ELSE IF ~rpcOk
              THEN Outcome(container, dockerd, "runtime error",
                           ci.calls \o <<"Delete">>, "none")
              ELSE Outcome([container EXCEPT !.status = NilStatus],
                           [i \in DOMAIN dockerd \ {id} |-> dockerd[i]], Nil,
                           ci.calls \o <<"Delete">>, "none")
    IN  /\ container' = o.container
        /\ dockerd' = o.dockerd
        /\ last' = Returned("Delete", o.err, o.calls, o.reply, container)
        /\ UNCHANGED <<driverVars, releaseVars, unitVars>>

\* Container.UpdateStatus: ToInstance, updateStatus.
ContainerUpdateStatus(selectOk, statusOk) ==
    LET ci == ToInstance(container, selectOk)
        o  == IF ci.err # Nil THEN Refused(container, dockerd, ci)
              ELSE ThenUpdateStatus(container, dockerd, container.status.id,
                                    ci.calls, statusOk)
    IN  /\ container' = o.container
        /\ dockerd' = o.dockerd
        /\ last' = Returned("UpdateStatus", o.err, o.calls, o.reply,
                            container)
        /\ UNCHANGED <<driverVars, releaseVars, unitVars>>

\* Container.Read, Copy and Stat: ToInstance, then the call of the
\* instance, which asks the daemon once.  The Container is left alone.
OnInstance(op, selectOk, rpcOk) ==
    LET ci == ToInstance(container, selectOk)
    IN  IF ci.err # Nil THEN ci
        ELSE [err |-> IF rpcOk THEN Nil ELSE "runtime error",
              calls |-> ci.calls \o <<op>>]

ContainerRead(selectOk, rpcOk) ==
    LET o == OnInstance("Read", selectOk, rpcOk)
    IN  /\ last' = Returned("Read", o.err, o.calls, "none", container)
        /\ UNCHANGED <<container, dockerd, driverVars, releaseVars, unitVars>>

ContainerCopy(selectOk, rpcOk) ==
    LET o == OnInstance("Copy", selectOk, rpcOk)
    IN  /\ last' = Returned("Copy", o.err, o.calls, "none", container)
        /\ UNCHANGED <<container, dockerd, driverVars, releaseVars, unitVars>>

ContainerStat(selectOk, rpcOk) ==
    LET o == OnInstance("Stat", selectOk, rpcOk)
    IN  /\ last' = Returned("Stat", o.err, o.calls, "none", container)
        /\ UNCHANGED <<container, dockerd, driverVars, releaseVars, unitVars>>

\* The environment: a container is removed behind the Container's back.
Removed(id) ==
    /\ id \in DOMAIN dockerd
    /\ dockerd' = [i \in DOMAIN dockerd \ {id} |-> dockerd[i]]
    /\ last' = Returned("none", Nil, <<>>, "none", container)
    /\ UNCHANGED <<container, driverVars, releaseVars, unitVars>>

ContainerNext ==
    \/ \E n \in ConfigNames, i \in ConfigImages, d \in BOOLEAN :
         Configure(n, i, d)
    \/ ContainerValidate
    \/ \E selectOk \in BOOLEAN : ContainerNew(selectOk)
    \/ \E selectOk \in BOOLEAN : ContainerToInstance(selectOk)
    \/ \E selectOk, rpcOk, statusOk \in BOOLEAN, id \in ContainerIDs :
         ContainerCreate(selectOk, id, rpcOk, statusOk)
    \/ \E selectOk, rpcOk, statusOk \in BOOLEAN :
         ContainerStart(selectOk, rpcOk, statusOk)
    \/ \E selectOk, rpcOk, statusOk \in BOOLEAN :
         ContainerStop(selectOk, rpcOk, statusOk)
    \/ \E selectOk, rpcOk \in BOOLEAN : ContainerDelete(selectOk, rpcOk)
    \/ \E selectOk, statusOk \in BOOLEAN :
         ContainerUpdateStatus(selectOk, statusOk)
    \/ \E selectOk, rpcOk \in BOOLEAN : ContainerRead(selectOk, rpcOk)
    \/ \E selectOk, rpcOk \in BOOLEAN : ContainerCopy(selectOk, rpcOk)
    \/ \E selectOk, rpcOk \in BOOLEAN : ContainerStat(selectOk, rpcOk)
    \/ \E id \in ContainerIDs : Removed(id)

ContainerSpec == Init /\ [][ContainerNext]_vars


(***************************************************************************)
(* pkg/helm/release: one release.  Every call on the Release is one step.  *)
(* The API server answers an attempt of a Helm action with a failure or    *)
(* with what the action does on the cluster as it is.                      *)
(***************************************************************************)

\* The attempts of one Helm action the API server can fail in a row.
MaxFailures == 3

\* retryOnEtcdError: for i := 0; i < 3; i++.
RetryLimit == 3

\* driver.ErrReleaseNotFound.
ErrReleaseNotFound == <<"release: not found">>

\* Failures of the API server: an error of the etcd server, passed on
\* inside an RPC error, and an error that has nothing to do with etcd.
Failures ==
    {<<"rpc error:", "etcdserver:", "request timed out">>,
     <<"connection refused">>}

FailureScripts ==
    UNION {[1..n -> Failures] : n \in 0..MaxFailures}

\* strings.Contains(err.Error(), part).
Contains(msg, part) == \E i \in 1..Len(msg) : msg[i] = part

\* fmt.Errorf("<text>: %w", err).
Wrap(text, err) == <<text>> \o err

\* What attempt i of an action returns: the failures first, then the answer
\* of the action itself.
AttemptOutcome(fails, answer, i) ==
    IF i <= Len(fails) THEN fails[i] ELSE answer

\* A loop that tries again after any error.
RECURSIVE retryAnyLoop(_, _, _, _)
retryAnyLoop(fails, answer, i, outs) ==
    IF i >= RetryLimit THEN [err |-> outs[Len(outs)], outs |-> outs]
    ELSE LET err == AttemptOutcome(fails, answer, i + 1)
         IN  IF err = NilError
             THEN [err |-> NilError, outs |-> Append(outs, err)]
             ELSE retryAnyLoop(fails, answer, i + 1, Append(outs, err))

retryOnAnyError(fails, answer) == retryAnyLoop(fails, answer, 0, <<>>)

\* The loop of retryOnEtcdError after i attempts, outs being what they
\* returned.
RECURSIVE retryLoop(_, _, _, _)
retryLoop(fails, answer, i, outs) ==
    IF i >= RetryLimit THEN [err |-> outs[Len(outs)], outs |-> outs]
    ELSE LET err == AttemptOutcome(fails, answer, i + 1)
         IN  IF err = NilError
             THEN [err |-> NilError, outs |-> Append(outs, err)]
             ELSE IF Contains(err, "etcdserver:")
             THEN retryLoop(fails, answer, i + 1, Append(outs, err))
             ELSE [err |-> err, outs |-> Append(outs, err)]

\* retryOnEtcdError(f): the error returned and what every call of f
\* returned.
retryOnEtcdError(fails, answer) == retryLoop(fails, answer, 0, <<>>)

\* One run of a Helm action under retryOnEtcdError.
Run(action, r) == [action |-> action, outs |-> r.outs, err |-> r.err]

\* The result of a method of Release: its error, the methods entered, the
\* runs made, the answer of Exists and the cluster after it.
Result(err, methods, runs, found, dep) ==
    [err |-> err, methods |-> methods, runs |-> runs, found |-> found,
     deployed |-> dep]

TimedOut == <<"timed out waiting for kube-apiserver to be reachable">>

\* Exists taking a release that is not found for an error.
ExistsNotFoundFails(dep, pingOk, fails) ==
    IF ~pingOk THEN Result(TimedOut, <<"Exists">>, <<>>, "error", dep)
    ELSE LET r == retryOnEtcdError(fails, IF dep THEN NilError
                                          ELSE ErrReleaseNotFound)
         IN  IF r.err # NilError
             THEN Result(Wrap("checking if release exists:", r.err),
                         <<"Exists">>, <<Run("history", r)>>, "error", dep)
             ELSE Result(NilError, <<"Exists">>, <<Run("history", r)>>,
                         "yes", dep)

\* release.Exists: the history of the release, one entry at most.
Exists(dep, pingOk, fails) ==
    IF ~pingOk THEN Result(TimedOut, <<"Exists">>, <<>>, "error", dep)
    ELSE LET r == retryOnEtcdError(fails, IF dep THEN NilError
                                          ELSE ErrReleaseNotFound)
         IN  IF r.err = ErrReleaseNotFound
             THEN Result(NilError, <<"Exists">>, <<Run("history", r)>>,
                         "no", dep)
             ELSE IF r.err # NilError
             THEN Result(Wrap("checking if release exists:", r.err),
                         <<"Exists">>, <<Run("history", r)>>, "error", dep)
             ELSE Result(NilError, <<"Exists">>, <<Run("history", r)>>,
                         "yes", dep)

\* Install going on although the API server did not answer.
InstallNoWait(dep, pingOk, chartOk, fails) ==
    IF ~chartOk
    THEN Result(<<"loading chart:", "locating chart">>, <<"Install">>, <<>>,
                "none", dep)
    ELSE LET r == retryOnEtcdError(fails,
                    IF dep THEN <<"cannot re-use a name that is still in use">>
                    ELSE NilError)
         IN  IF r.err # NilError
             THEN Result(Wrap("installing a release:", r.err), <<"Install">>,
                         <<Run("install", r)>>, "none", dep)
             ELSE Result(NilError, <<"Install">>, <<Run("install", r)>>,
                         "none", TRUE)

\* release.Install.  Helm refuses to install a release that exists.
Install(dep, pingOk, chartOk, fails) ==
    IF ~pingOk THEN Result(TimedOut, <<"Install">>, <<>>, "none", dep)
    ELSE IF ~chartOk
    THEN Result(<<"loading chart:", "locating chart">>, <<"Install">>, <<>>,
                "none", dep)
    ELSE LET r == retryOnEtcdError(fails,
                    IF dep THEN <<"cannot re-use a name that is still in use">>
                    ELSE NilError)
         IN  IF r.err # NilError
             THEN Result(Wrap("installing a release:", r.err), <<"Install">>,
                         <<Run("install", r)>>, "none", dep)
             ELSE Result(NilError, <<"Install">>, <<Run("install", r)>>,
                         "none", TRUE)

\* release.Upgrade.  Helm refuses to upgrade a release that does not exist.
Upgrade(dep, pingOk, chartOk, fails) ==
    IF ~pingOk THEN Result(TimedOut, <<"Upgrade">>, <<>>, "none", dep)
    ELSE IF ~chartOk
    THEN Result(<<"loading chart:", "locating chart">>, <<"Upgrade">>, <<>>,
                "none", dep)
    ELSE LET r == retryOnEtcdError(fails,
                    IF dep THEN NilError
                    ELSE <<"has no deployed releases">>)
         IN  IF r.err # NilError
             THEN Result(Wrap("upgrading a release:", r.err), <<"Upgrade">>,
                         <<Run("upgrade", r)>>, "none", dep)
             ELSE Result(NilError, <<"Upgrade">>, <<Run("upgrade", r)>>,
                         "none", TRUE)

\* The result of a method called after Exists.
After(e, m) ==
    Result(m.err, e.methods \o m.methods, e.runs \o m.runs, e.found,
           m.deployed)

\* release.InstallOrUpgrade.
InstallOrUpgrade(dep, ping, chartOk, fails) ==
    LET e == Exists(dep, ping[1], fails[1])
    IN  IF e.err # NilError
        THEN Result(Wrap("checking release existence:", e.err), e.methods,
                    e.runs, e.found, dep)
        ELSE IF e.found = "yes"
        THEN After(e, Upgrade(dep, ping[2], chartOk, fails[2]))
        ELSE After(e, Install(dep, ping[2], chartOk, fails[2]))

\* Uninstall running the uninstall action whatever Exists answered.  Helm
\* does not find a release that does not exist.
UninstallUnchecked(dep, pingOk, fails) ==
    LET e == Exists(dep, pingOk, fails[1])
    IN  IF e.err # NilError
        THEN Result(Wrap("checking if release exists:", e.err), e.methods,
                    e.runs, e.found, dep)
        ELSE LET r == retryOnEtcdError(fails[2], IF dep THEN NilError
                                                 ELSE ErrReleaseNotFound)
             IN  Result(IF r.err # NilError
                        THEN Wrap("uninstalling a release:", r.err)
                        ELSE NilError,
                        e.methods, e.runs \o <<Run("uninstall", r)>>, e.found,
                        IF r.err # NilError THEN dep ELSE FALSE)

\* release.Uninstall: nothing to do for a release that does not exist.
Uninstall(dep, pingOk, fails) ==
    LET e == Exists(dep, pingOk, fails[1])
    IN  IF e.err # NilError
        THEN Result(Wrap("checking if release exists:", e.err), e.methods,
                    e.runs, e.found, dep)
        ELSE IF e.found = "no" THEN e
        ELSE LET r == retryOnEtcdError(fails[2], NilError)
             IN  Result(IF r.err # NilError
                        THEN Wrap("uninstalling a release:", r.err)
                        ELSE NilError,
                        e.methods, e.runs \o <<Run("uninstall", r)>>, e.found,
                        IF r.err # NilError THEN dep ELSE FALSE)

ReleaseExists(pingOk, fails) ==
    LET o == Exists(deployed, pingOk, fails)
    IN  /\ deployed' = o.deployed
        /\ rlast' = ReleaseReturned("Exists", o.err, o.methods, o.runs,
                                    o.found, deployed,
                                    <<pingOk>>, TRUE)
        /\ UNCHANGED <<driverVars, containerVars, unitVars>>

ReleaseInstall(pingOk, chartOk, fails) ==
    LET o == Install(deployed, pingOk, chartOk, fails)
    IN  /\ deployed' = o.deployed
        /\ rlast' = ReleaseReturned("Install", o.err, o.methods, o.runs,
                                    o.found, deployed,
                                    <<pingOk>>, chartOk)
        /\ UNCHANGED <<driverVars, containerVars, unitVars>>

ReleaseUpgrade(pingOk, chartOk, fails) ==
    LET o == Upgrade(deployed, pingOk, chartOk, fails)
    IN  /\ deployed' = o.deployed
        /\ rlast' = ReleaseReturned("Upgrade", o.err, o.methods, o.runs,
                                    o.found, deployed,
                                    <<pingOk>>, chartOk)
        /\ UNCHANGED <<driverVars, containerVars, unitVars>>

ReleaseInstallOrUpgrade(ping, chartOk, fails) ==
    LET o == InstallOrUpgrade(deployed, ping, chartOk, fails)
    IN  /\ deployed' = o.deployed
        /\ rlast' = ReleaseReturned("InstallOrUpgrade", o.err, o.methods,
                                    o.runs, o.found, deployed,
                                    ping, chartOk)
        /\ UNCHANGED <<driverVars, containerVars, unitVars>>

ReleaseUninstall(pingOk, fails) ==
    LET o == Uninstall(deployed, pingOk, fails)
    IN  /\ deployed' = o.deployed
        /\ rlast' = ReleaseReturned("Uninstall", o.err, o.methods, o.runs,
                                    o.found, deployed,
                                    <<pingOk>>, TRUE)
        /\ UNCHANGED <<driverVars, containerVars, unitVars>>

ReleaseNext ==
    \/ \E pingOk \in BOOLEAN, fails \in FailureScripts :
         ReleaseExists(pingOk, fails)
    \/ \E pingOk, chartOk \in BOOLEAN, fails \in FailureScripts :
         ReleaseInstall(pingOk, chartOk, fails)
    \/ \E pingOk, chartOk \in BOOLEAN, fails \in FailureScripts :
         ReleaseUpgrade(pingOk, chartOk, fails)
    \/ \E ping \in [1..2 -> BOOLEAN], chartOk \in BOOLEAN,
          fails \in [1..2 -> FailureScripts] :
         ReleaseInstallOrUpgrade(ping, chartOk, fails)
    \/ \E pingOk \in BOOLEAN, fails \in [1..2 -> FailureScripts] :
         ReleaseUninstall(pingOk, fails)

ReleaseSpec == Init /\ [][ReleaseNext]_vars

(***************************************************************************)
(* The driver and state.yaml: what main reads at its start and writes at   *)
(* its end.  Between two runs the user may edit or remove the file.        *)
(***************************************************************************)

\* The document "{}\n".
EmptyDocument == <<<<"{}", "\n">>>>

\* The states persisted here: key -> image of the container.
FileStates == UNION {[S -> Images] : S \in SUBSET Keys}

StateLine(k, v) == <<"  ", ToString(k), ": ", v, "\n">>

\* yaml.Marshal of a resource that holds nothing but its state: "{}\n" for
\* the empty state, else a top-level state map.
Marshal(state) ==
    IF DOMAIN state = {} THEN EmptyDocument
    ELSE <<<<"state:", "\n">>>> \o
         [i \in 1..Cardinality(DOMAIN state) |->
            StateLine(SortedKeys(DOMAIN state)[i],
                      state[SortedKeys(DOMAIN state)[i]])]

IsStateLine(line) == Len(line) = 5 /\ line[1] = "  "

\* What parsing gives: an error, or the state of the resource.
Parsed(err, state) == [err |-> err, state |-> state]

\* The resource read from YAML.  A flow mapping "{}" is a document of its
\* own: nothing may come with it.  Every line ends with a newline but the
\* last, a top-level key appears once, the entries of the state map follow
\* its key.
Unmarshal(bytes) ==
    LET n       == Len(bytes)
        flow    == {i \in 1..n : bytes[i][1] = "{}"}
        states  == {i \in 1..n : bytes[i][1] = "state:"}
        options == {i \in 1..n : bytes[i][1] = "apiServerPort:"}
        entries == {i \in 1..n : IsStateLine(bytes[i])}
        keys    == {k \in Keys :
                      \E i \in entries : bytes[i][2] = ToString(k)}
        wellFormed ==
          /\ flow \cup states \cup options \cup entries = 1..n
          /\ flow # {} => n = 1
          /\ Cardinality(states) <= 1
          /\ Cardinality(options) <= 1
          /\ \A i \in 1..(n - 1) : bytes[i][Len(bytes[i])] = "\n"
          /\ \A i \in entries :
               /\ i > 1
               /\ (i - 1) \in states \cup entries
               /\ \E k \in Keys : bytes[i][2] = ToString(k)
               /\ \A j \in entries : bytes[j][2] = bytes[i][2] => j = i
    IN  IF ~wellFormed THEN Parsed("parse", Empty)
        ELSE Parsed(Nil,
               [k \in keys |->
                  bytes[CHOOSE i \in entries : bytes[i][2] = ToString(k)][4]])

\* What the user may leave in state.yaml.
FileContents ==
    {NoBytes, EmptyDocument, <<<<"{}">>>>, <<<<"::", "\n">>>>}
      \cup {Marshal(st) : st \in FileStates}

\* The file config.yaml.
ConfigFiles ==
    {NoFile, File(TRUE, EmptyDocument),
     File(TRUE, <<<<"apiServerPort:", " 6443", "\n">>>>)}

\* What readYamlFile returns.
Read(err, bytes) == [err |-> err, bytes |-> bytes]

\* readYamlFile that returns every file as it is.
readYamlFileAsIs(f, readOk) ==
    IF ~f.exists THEN Read(Nil, NoBytes)
    ELSE IF ~readOk THEN Read("read", NoBytes)
    ELSE Read(Nil, f.bytes)

readYamlFile(f, readOk) ==
    IF ~f.exists THEN Read(Nil, NoBytes)
    ELSE IF ~readOk THEN Read("read", NoBytes)
    ELSE IF f.bytes = EmptyDocument THEN Read(Nil, NoBytes)
    ELSE Read(Nil, f.bytes)

\* main, up to the resource it builds from the two files.
MainRead(configFile, readOk) ==
    LET s == readYamlFile(disk, readOk[1])
        c == readYamlFile(configFile, readOk[2])
        r == Unmarshal(s.bytes \o c.bytes)
    IN  /\ flast' = IF s.err # Nil
                    THEN Accessed("read", s.err, NoBytes, Empty, disk)
                    ELSE IF c.err # Nil
                    THEN Accessed("read", "config", s.bytes, Empty, disk)
                    ELSE Accessed("read", r.err, s.bytes, r.state, disk)
        /\ UNCHANGED <<disk, persisted>>
        /\ UNCHANGED <<coreVars, controlplaneVars, clusterVars, dockerVars>>

\* The bytes main hands to WriteFile for a serialized state.
ToWrite(state) == IF state = EmptyDocument THEN NoBytes ELSE state

\* main, from StateToYaml on.  A write that fails leaves the file as it
\* was or truncated.
MainWrite(st, writeOk, truncated) ==
    LET bytes == ToWrite(Marshal(st))
    IN  /\ disk' = IF writeOk THEN File(TRUE, bytes)
                   ELSE IF truncated THEN File(TRUE, NoBytes)
                   ELSE disk
        /\ persisted' = IF writeOk THEN Holds(TRUE, st)
                        ELSE Holds(FALSE, Empty)
        /\ flast' = Accessed("write", IF writeOk THEN Nil ELSE "write",
                             bytes, st, disk)
        /\ UNCHANGED <<coreVars, controlplaneVars, clusterVars, dockerVars>>

\* The user writes the file.
UserEdit(content) ==
    /\ disk' = File(TRUE, content)
    /\ persisted' = Holds(FALSE, Empty)
    /\ UNCHANGED flast
    /\ UNCHANGED <<coreVars, controlplaneVars, clusterVars, dockerVars>>

\* The user removes the file.
Unlink ==
    /\ disk.exists
    /\ disk' = NoFile
    /\ persisted' = Holds(FALSE, Empty)
    /\ UNCHANGED flast
    /\ UNCHANGED <<coreVars, controlplaneVars, clusterVars, dockerVars>>

FileNext ==
    \/ \E configFile \in ConfigFiles, readOk \in [1..2 -> BOOLEAN] :
         MainRead(configFile, readOk)
    \/ \E st \in FileStates, writeOk, truncated \in BOOLEAN :
         MainWrite(st, writeOk, truncated)
    \/ \E content \in FileContents : UserEdit(content)
    \/ Unlink

FileSpec == Init /\ [][FileNext]_vars

(***************************************************************************)
(* pkg/controlplane: a Controlplane is decoded from YAML, validated and    *)
(* turned into a resource; then the process ends.                          *)
(***************************************************************************)

\* The last non-empty string of the list.
PickLastString(values) ==
    IF \A i \in 1..Len(values) : values[i] = "" THEN ""
    ELSE values[CHOOSE i \in 1..Len(values) :
                  values[i] # "" /\ \A j \in (i + 1)..Len(values) :
                                     values[j] = ""]

\* util.PickString: the first non-empty string of the list, "" if none.
PickString(values) ==
    IF \A i \in 1..Len(values) : values[i] = "" THEN ""
    ELSE values[CHOOSE i \in 1..Len(values) :
                  values[i] # "" /\ \A j \in 1..(i - 1) : values[j] = ""]

\* propagateKubeconfig adding the API server to the server that is set.
propagateKubeconfigAppend(c, d) ==
    Kubeconfig(PickString(<<d.caCertificate,
                            c.common.kubernetesCACertificate, c.pki.ca>>),
               IF c.apiServerAddress # "" /\ c.apiServerPort # 0
               THEN d.server \o <<c.apiServerAddress, c.apiServerPort>>
               ELSE d.server)

\* propagateKubeconfig: d is the address of the component's Kubeconfig.
propagateKubeconfig(c, d) ==
    Kubeconfig(PickString(<<d.caCertificate,
                            c.common.kubernetesCACertificate, c.pki.ca>>),
               IF c.apiServerAddress # "" /\ c.apiServerPort # 0
               THEN IF d.server # <<>> THEN d.server
                    ELSE <<c.apiServerAddress, c.apiServerPort>>
               ELSE d.server)

\* host.BuildConfig under propagateHost: the host's own SSH configuration,
\* else the one of the Controlplane.
propagateHost(c, h) == Host(PickString(<<h.ssh, c.ssh>>))

\* The Common that propagateCommon fills: the one it is given, a new one
\* when it is given nil.
Propagated(c, co) ==
    Common(PickString(<<co.image, c.common.image>>),
           PickString(<<co.kubernetesCACertificate,
                        c.common.kubernetesCACertificate, c.pki.ca>>),
           PickString(<<co.frontProxyCACertificate,
                        c.common.frontProxyCACertificate,
                        c.pki.frontProxyCA>>))

\* propagateCommon.  c is the Controlplane, whose Common is set when it was
\* nil; co is what the component's field points to after the call: the
\* Common made for a nil co is local to the function.
propagateCommon(c, co) ==
    LET cc == [c EXCEPT !.common = IF c.common.nil THEN Common("", "", "")
                                   ELSE c.common]
    IN  [c |-> cc, co |-> IF co.nil THEN co ELSE Propagated(cc, co)]

\* The Controlplane with component n replaced.
WithComponent(c, n, k) == [c EXCEPT !.components[n] = k]

buildKubeAPIServer(c) ==
    LET k == c.components["kube-apiserver"]
        p == propagateCommon(c, k.common)
    IN  WithComponent(p.c, "kube-apiserver",
          [k EXCEPT
             !.bindAddress =
                IF k.bindAddress = "" /\ c.apiServerAddress # ""
                THEN c.apiServerAddress ELSE k.bindAddress,
             !.advertiseAddress =
                IF k.advertiseAddress = "" /\ c.apiServerAddress # ""
                THEN c.apiServerAddress ELSE k.advertiseAddress,
             !.securePort =
                IF k.securePort = 0 /\ c.apiServerPort # 0
                THEN c.apiServerPort ELSE k.securePort,
             !.common = p.co,
             !.host = propagateHost(c, k.host)])

\* buildKubeControllerManager and buildKubeScheduler, for component n.
buildWithKubeconfig(c, n) ==
    LET k == c.components[n]
        p == propagateCommon(c, k.common)
    IN  WithComponent(p.c, n,
          [k EXCEPT !.kubeconfig = propagateKubeconfig(c, k.kubeconfig),
                    !.common = p.co,
                    !.host = propagateHost(c, k.host)])

buildComponents(c) ==
    buildWithKubeconfig(
      buildWithKubeconfig(buildKubeAPIServer(c), "kube-controller-manager"),
      "kube-scheduler")

\* Common.GetImage of a component, whose New makes a Common of a nil one.
GetImage(co) == PickString(<<co.image, "kubernetes:default">>)

\* The containers the three components give.
ComponentsState(c) ==
    [n \in Components |->
       [image |-> GetImage(c.components[n].common), files |-> NoContent]]

\* Containers.New: neither previous nor desired state is an error.
ContainersNew(prev, des) ==
    IF DOMAIN prev = {} /\ DOMAIN des = {}
    THEN "either current state or desired state must be defined"
    ELSE Nil

\* co, _ := cc.New(): there is an engine unless New returned an error.
Engine(prev, des) == ContainersNew(prev, des) = Nil

\* Validate not trying the state it is given.
ControlplaneValidAnyState(c) ==
    LET b == buildComponents(c)
    IN  [c |-> b,
         err |-> IF b.destroy /\ b.state.nil
                 THEN "can't destroy non-existent controlplane"
                 ELSE IF ~b.sound
                 THEN "failed to verify configuration"
                 ELSE Nil]

\* Validate accepting Destroy without a state.
ControlplaneValidAnyDestroy(c) ==
    LET b == buildComponents(c)
    IN  [c |-> b,
         err |-> IF ~b.state.nil /\ ContainersNew(b.state.value, Empty) # Nil
                 THEN "unable to create containers state"
                 ELSE IF ~b.sound
                 THEN "failed to verify configuration"
                 ELSE Nil]

\* Controlplane.Validate: the Controlplane after it, and the first of the
\* errors it collected.
ControlplaneValid(c) ==
    LET b == buildComponents(c)
    IN  [c |-> b,
         err |-> IF b.destroy /\ b.state.nil
                 THEN "can't destroy non-existent controlplane"
                 ELSE IF ~b.state.nil
                         /\ ContainersNew(b.state.value, Empty) # Nil
                 THEN "unable to create containers state"
                 ELSE IF ~b.sound
                 THEN "failed to verify configuration"
                 ELSE Nil]

\* Controlplane.New: the Controlplane after it, the error, the resource.
ControlplaneBuilt(c) ==
    LET v    == ControlplaneValid(c)
        prev == IF v.c.state.nil THEN Empty ELSE v.c.state.value
        b    == buildComponents(v.c)
    IN  IF v.err # Nil
        THEN [c |-> v.c,
              err |-> "failed to validate controlplane configuration",
              resource |-> NilResource]
        ELSE IF v.c.destroy
        THEN [c |-> v.c, err |-> Nil,
              resource |-> Resource(~v.c.state.nil /\ Engine(prev, Empty),
                                    prev, Empty)]
        ELSE [c |-> b, err |-> Nil,
              resource |-> Resource(Engine(prev, ComponentsState(b)), prev,
                                    ComponentsState(b))]

\* What the user may write for one component.
ComponentConfigs ==
    {[ZeroComponent EXCEPT !.common = co, !.host = h,
                           !.kubeconfig = Kubeconfig(ca, server)] :
       co \in {NilCommon, Common("", "", ""),
               Common("img:own", "ca:own", "fp:own")},
       h \in {NilHost, Host("ssh:own")},
       ca \in {"", "ca:kubeconfig"},
       server \in {<<>>, <<"k8s.example", 443>>}}

\* The state of a controlplane deployed before.
DeployedState ==
    [n \in Components |-> [image |-> "img:old", files |-> NoContent]]

\* What the user may write where propagation is concerned: the
\* Controlplane-level fields, and one configuration for the components
\* named, the others left empty.
PropagationConfigs ==
    {Controlplane(co, ssh, address, port, pki,
                  [n \in Components |->
                     IF n \in named THEN k ELSE ZeroComponent],
                  FALSE, NilState, TRUE) :
       co \in {NilCommon, Common("img:cp", "ca:cp", "fp:cp")},
       ssh \in {"", "ssh:cp"},
       address \in {"", "10.0.0.1"},
       port \in {0, 6443},
       pki \in {[ca |-> "", frontProxyCA |-> ""],
                [ca |-> "ca:pki", frontProxyCA |-> "fp:pki"]},
       k \in ComponentConfigs,
       named \in {{n} : n \in Components} \cup {Components}}

\* What the user may write where the state is concerned: Destroy, the
\* state, components that are sound or not, a common image or none.
DestroyConfigs ==
    {Controlplane(co, "", "", 0, [ca |-> "", frontProxyCA |-> ""],
                  [n \in Components |-> ZeroComponent], destroy, st,
                  sound) :
       co \in {NilCommon, Common("img:cp", "ca:cp", "fp:cp")},
       destroy \in BOOLEAN,
       st \in {NilState, State(Empty), State(DeployedState)},
       sound \in BOOLEAN}

Controlplanes == PropagationConfigs \cup DestroyConfigs

\* FromYaml: a new Controlplane is decoded.
Decode ==
    /\ cpres.op = "none"
    /\ cplane = ZeroControlplane
    /\ cplane' \in Controlplanes
    /\ UNCHANGED cpres
    /\ UNCHANGED <<coreVars, fileVars, clusterVars, dockerVars>>

ControlplaneValidate ==
    LET o == ControlplaneValid(cplane)
    IN  /\ cplane # ZeroControlplane
        /\ cplane' = o.c
        /\ cpres' = Built("Validate", cplane, o.err, NilResource)
        /\ UNCHANGED <<coreVars, fileVars, clusterVars, dockerVars>>

ControlplaneNew ==
    LET o == ControlplaneBuilt(cplane)
    IN  /\ cplane # ZeroControlplane
        /\ cplane' = o.c
        /\ cpres' = Built("New", cplane, o.err, o.resource)
        /\ UNCHANGED <<coreVars, fileVars, clusterVars, dockerVars>>

\* The process ends.
Exit ==
    /\ cpres.op # "none"
    /\ cplane' = ZeroControlplane
    /\ cpres' = Built("none", ZeroControlplane, Nil, NilResource)
    /\ UNCHANGED <<coreVars, fileVars, clusterVars, dockerVars>>

ControlplaneNext ==
    \/ Decode
    \/ ControlplaneValidate
    \/ ControlplaneNew
    \/ Exit

ControlplaneSpec == Init /\ [][ControlplaneNext]_vars

(***************************************************************************)
(* pkg/etcd: a Cluster is decoded from YAML, validated and turned into a   *)
(* resource; then the process ends.                                        *)
(***************************************************************************)

\* A Member.  A certificate or key is "" when unset, "foo" when it is not
\* PEM; host is the transport selected, "" when none is.
Member(name, peerAddress, ca, peerCert, serverCert, peerKey, serverKey,
       host) ==
    [name |-> name, peerAddress |-> peerAddress, caCertificate |-> ca,
     peerCertificate |-> peerCert, serverCertificate |-> serverCert,
     peerKey |-> peerKey, serverKey |-> serverKey, host |-> host]

\* validMember of the tests.
ValidMember ==
    Member("foo", "foo", "cert", "cert", "cert", "key", "key", "direct")

\* The members the tests validate, and a member that leaves name, CA
\* certificate and host to the Cluster.
Members ==
    {ValidMember,
     [ValidMember EXCEPT !.peerAddress = ""],
     [ValidMember EXCEPT !.name = ""],
     [ValidMember EXCEPT !.caCertificate = "foo"],
     [ValidMember EXCEPT !.peerCertificate = "foo"],
     [ValidMember EXCEPT !.serverCertificate = "foo"],
     [ValidMember EXCEPT !.peerKey = "foo"],
     [ValidMember EXCEPT !.serverKey = "foo"],
     [ValidMember EXCEPT !.host = ""],
     [ValidMember EXCEPT !.name = "", !.caCertificate = "", !.host = ""]}

\* Member.New, which validates the member: the error, Nil when it is
\* valid.
MemberNew(m) ==
    IF m.peerAddress = "" THEN "peer address must be set"
    ELSE IF m.name = "" THEN "member name must be set"
    ELSE IF m.caCertificate # "cert" THEN "validating CA certificate"
    ELSE IF m.peerCertificate # "cert" THEN "validating peer certificate"
    ELSE IF m.serverCertificate # "cert"
    THEN "validating server certificate"
    ELSE IF m.peerKey # "key" THEN "validating peer key"
    ELSE IF m.serverKey # "key" THEN "validating server key"
    ELSE IF m.host = "" THEN "validating host configuration"
    ELSE Nil

\* Cluster.propagateMember, for what validation looks at: the name, the
\* CA certificate and the host of member i.
PropagatedMember(c, i) ==
    LET m == c.members[i]
    IN  [m EXCEPT
           !.name = PickString(<<m.name, "etcd-" \o ToString(i)>>),
           !.caCertificate = PickString(<<m.caCertificate,
                                          c.caCertificate>>),
           !.host = PickString(<<m.host, c.ssh>>)]

\* Cluster.Validate that does not look at the members.
ClusterValidAnyMember(c) ==
    IF DOMAIN c.members = {} /\ c.state.nil
    THEN "either members or previous state needs to be defined"
    ELSE Nil

\* Cluster.Validate.
ClusterValid(c) ==
    IF DOMAIN c.members = {} /\ c.state.nil
    THEN "either members or previous state needs to be defined"
    ELSE IF \E n \in DOMAIN c.members :
              MemberNew(PropagatedMember(c, n)) # Nil
    THEN "failed to validate member"
    ELSE Nil

\* Cluster.New: the error and the resource.
ClusterBuilt(c) ==
    IF ClusterValid(c) # Nil
    THEN [err |-> "failed to validate cluster configuration",
          resource |-> NilResource]
    ELSE [err |-> Nil,
          resource |->
            Resource(TRUE, c.state.value,
                     [n \in DOMAIN c.members |->
                        [image |-> "etcd:default", files |-> NoContent]])]

\* What the user may write.
Clusters ==
    {Cluster(ssh, ca, members, st) :
       ssh \in {"", "ssh"},
       ca \in {"", "cert"},
       members \in UNION {[S -> Members] : S \in SUBSET Keys},
       st \in {NilState,
               State([k \in Keys |->
                        [image |-> "etcd:default", files |-> NoContent]])}}

\* FromYaml: a new Cluster is decoded.
ClusterDecode ==
    /\ etcdRes.op = "none"
    /\ etcdCluster = ZeroCluster
    /\ etcdCluster' \in Clusters
    /\ UNCHANGED etcdRes
    /\ UNCHANGED <<coreVars, fileVars, controlplaneVars, dockerVars>>

ClusterValidate ==
    /\ etcdCluster # ZeroCluster
    /\ etcdRes' = Built("Validate", etcdCluster, ClusterValid(etcdCluster),
                        NilResource)
    /\ UNCHANGED etcdCluster
    /\ UNCHANGED <<coreVars, fileVars, controlplaneVars, dockerVars>>

ClusterNew ==
    LET o == ClusterBuilt(etcdCluster)
    IN  /\ etcdCluster # ZeroCluster
        /\ etcdRes' = Built("New", etcdCluster, o.err, o.resource)
        /\ UNCHANGED etcdCluster
        /\ UNCHANGED <<coreVars, fileVars, controlplaneVars, dockerVars>>

\* The process ends.
ClusterExit ==
    /\ etcdRes.op # "none"
    /\ etcdCluster' = ZeroCluster
    /\ etcdRes' = Built("none", ZeroCluster, Nil, NilResource)
    /\ UNCHANGED <<coreVars, fileVars, controlplaneVars, dockerVars>>

ClusterNext ==
    \/ ClusterDecode
    \/ ClusterValidate
    \/ ClusterNew
    \/ ClusterExit

ClusterSpec == Init /\ [][ClusterNext]_vars

(***************************************************************************)
(* pkg/container/runtime/docker: copying files to a container and reading  *)
(* paths from it.                                                          *)
(***************************************************************************)

\* The paths a call may name.
Paths == {"/foo", "/bar"}

PathLists ==
    {<<>>} \cup {<<p>> : p \in Paths}
           \cup {pq \in Paths \X Paths : pq[1] # pq[2]}

\* What may go wrong with the read of one path: the daemon fails, or the
\* stream it sends is no TAR archive.
Faults == {"none", "error", "malformed"}

\* What CopyFromContainer answers for path p: an error, no stream for a
\* path that does not exist, else the stream.
CopyFromContainer(p, fault) ==
    IF fault = "error" THEN "error"
    ELSE IF p \notin tree THEN "absent"
    ELSE IF fault = "malformed" THEN "malformed"
    ELSE "archive"

\* A read that takes a path that does not exist for an error.
RECURSIVE ReadPathsStrict(_, _, _)
ReadPathsStrict(paths, fault, files) ==
    IF paths = <<>> THEN [err |-> Nil, files |-> files]
    ELSE IF CopyFromContainer(Head(paths), fault[Head(paths)]) = "archive"
    THEN ReadPathsStrict(Tail(paths), fault, Append(files, Head(paths)))
    ELSE [err |-> "reading failed", files |-> <<>>]

\* docker.Read after some paths: the files read so far, by their paths.
RECURSIVE ReadPaths(_, _, _)
ReadPaths(paths, fault, files) ==
    IF paths = <<>> THEN [err |-> Nil, files |-> files]
    ELSE LET a == CopyFromContainer(Head(paths), fault[Head(paths)])
         IN  CASE a = "error" ->
                    [err |-> "copying from container failed",
                     files |-> <<>>]
               [] a = "absent" -> ReadPaths(Tail(paths), fault, files)
               [] a = "malformed" ->
                    [err |-> "extracting file from archive failed",
                     files |-> <<>>]
               [] OTHER ->
                    ReadPaths(Tail(paths), fault,
                              Append(files, Head(paths)))

\* docker.Read of the paths.
DockerRead(paths, fault) ==
    LET o == ReadPaths(paths, fault, <<>>)
    IN  /\ dlast' = Ran("Read", paths,
                        [i \in 1..Len(paths) |->
                           CopyFromContainer(paths[i], fault[paths[i]])],
                        o.err, o.files)
        /\ UNCHANGED tree
        /\ UNCHANGED <<coreVars, fileVars, controlplaneVars, clusterVars>>

\* docker.Copy of files to the paths: one archive for all of them.
DockerCopy(paths, ok) ==
    /\ tree' = IF ok THEN tree \cup {paths[i] : i \in 1..Len(paths)}
               ELSE tree
    /\ dlast' = Ran("Copy", paths, <<>>,
                    IF ok THEN Nil ELSE "copying to container failed", <<>>)
    /\ UNCHANGED <<coreVars, fileVars, controlplaneVars, clusterVars>>

\* The container removes one of its files.
PathRemoved(p) ==
    /\ p \in tree
    /\ tree' = tree \ {p}
    /\ UNCHANGED dlast
    /\ UNCHANGED <<coreVars, fileVars, controlplaneVars, clusterVars>>

DockerNext ==
    \/ \E paths \in PathLists, fault \in [Paths -> Faults] :
         DockerRead(paths, fault)
    \/ \E paths \in PathLists, ok \in BOOLEAN : DockerCopy(paths, ok)
    \/ \E p \in Paths : PathRemoved(p)

DockerSpec == Init /\ [][DockerNext]_vars


(***************************************************************************)
(* Properties.                                                             *)
(***************************************************************************)

EngineOps == {"stop", "delete", "create", "copy", "start"}

EtcdOps == {"getClient", "MemberRemove", "MemberAdd"}

LogIdx == 1..Len(log)

\* Indices of the successful calls of op for key k.
Done(op, k) == {i \in LogIdx : log[i].op = op /\ log[i].key = k /\ log[i].ok}

\* Containers.Deploy has been invoked in this run.
EngineInvoked ==
    \/ pc \in {"engine", "steps", "save"}
    \/ plan # <<>>
    \/ exit = "ok"
    \/ \E i \in LogIdx : log[i].op \in EngineOps

EngineIdx == {i \in LogIdx : log[i].op \in EngineOps}

C2_EtcdErrorAborts ==
    (\E i \in LogIdx : log[i].op \in EtcdOps /\ ~log[i].ok)
    => /\ pc = "exited"
       /\ exit = "deployFailed"
       /\ ~(\E i \in LogIdx : log[i].op \in EngineOps)
       /\ plan = <<>>
       /\ previous = prevAtStart

\* A MemberAdd failed after a MemberRemove had succeeded.
C2_Witness ==
    /\ \E i \in LogIdx : log[i].op = "MemberAdd" /\ ~log[i].ok
    /\ \E i \in LogIdx : log[i].op = "MemberRemove" /\ log[i].ok
    /\ pc = "exited"


AddedKeys == DOMAIN desired \ DOMAIN prevAtStart

RemovedKeys == DOMAIN prevAtStart \ DOMAIN desired

KeptKeys == DOMAIN desired \cap DOMAIN prevAtStart

\* Deploy returned without error.
Succeeded == pc = "save" \/ (pc = "exited" /\ exit = "ok")

\* C3: within one pass no create/copy/start of an added key is issued
\* before every stop/delete of the removed keys has completed.
C3_RemovalsBeforeAdditions ==
    \A i \in LogIdx :
        (log[i].op \in {"create", "copy", "start"} /\ log[i].key \in AddedKeys)
        => /\ \A r \in RemovedKeys : \E j \in Done("delete", r) : j < i
           /\ \A j \in LogIdx :
                (log[j].op \in {"stop", "delete"} /\ log[j].key \in RemovedKeys)
                => j < i /\ log[j].ok

\* A pass that removed one key and then added another.
C3_Witness ==
    \E r \in RemovedKeys, a \in AddedKeys :
        /\ Done("stop", r) # {}
        /\ Done("delete", r) # {}
        /\ Done("create", a) # {}
        /\ a < r

Rank(op) ==
    CASE op = "stop" -> 1
      [] op = "delete" -> 2
      [] op = "create" -> 3
      [] op = "copy" -> 4
      [] op = "start" -> 5

\* The container RPCs issued for key k, in order.
OpsOf(k) ==
    LET es == SelectSeq(log, LAMBDA e : e.key = k /\ e.op \in EngineOps)
    IN  [i \in 1..Len(es) |-> es[i].op]

\* The daemon still knew the container of k when the pass began.
Present(k) == k \in DOMAIN current /\ current[k] # "missing"

ObservedNow(prev) == [k \in DOMAIN prev |-> Observe(runtime, prev[k].id)]

\* Previous state equals desired state and every container is observed
\* running.
InSync ==
    /\ DOMAIN current = DOMAIN prevAtStart
    /\ DOMAIN prevAtStart = DOMAIN desired
    /\ \A k \in DOMAIN desired :
         /\ prevAtStart[k].image = desired[k].image
         /\ prevAtStart[k].files = desired[k].files
         /\ current[k] = "running"

\* C5: Deploy is idempotent.  A pass whose previous state equals the desired
\* state, with the containers observed running, issues no container RPC and
\* leaves previous as it was; and once Deploy has returned without error, a
\* second Deploy of the same desired state has an empty plan, so it yields
\* the same previous state.
C5_Idempotent ==
    /\ (pc \notin {"idle", "check"} /\ InSync) =>
         /\ EngineIdx = {}
         /\ plan = <<>>
         /\ previous = prevAtStart
    /\ Succeeded => Plan(previous, desired, ObservedNow(previous)) = <<>>

\* A pass over an unchanged, running deployment has finished.
C5_Witness ==
    /\ pc = "exited"
    /\ exit = "ok"
    /\ InSync
    /\ Cardinality(DOMAIN desired) = NumKeys

Commit(prev, e) ==
    CASE e.op = "stop" -> [prev EXCEPT ![e.key].state = "stopped"]
      [] e.op = "delete" -> Without(prev, e.key)
      [] e.op = "create" ->
           With(prev, e.key, [image |-> desired[e.key].image,
                              files |-> NoContent, id |-> e.id,
                              state |-> "created"])
      [] e.op = "copy" -> [prev EXCEPT ![e.key].files = e.content]
      [] e.op = "start" -> [prev EXCEPT ![e.key].state = "running"]
      [] OTHER -> prev

\* previous after the committed sub-steps among the first n log entries.
RECURSIVE Committed(_)
Committed(n) ==
    IF n = 0 THEN prevAtStart
    ELSE IF log[n].ok THEN Commit(Committed(n - 1), log[n])
    ELSE Committed(n - 1)

FailedIdx == {i \in EngineIdx : ~log[i].ok}

\* C7: when a sub-step fails, Deploy returns the error at once (the failed
\* RPC is the last one issued), nothing is rolled back: previous holds
\* exactly the sub-steps committed before the failure, and the key whose
\* create failed has no entry in previous.
C7_FailureKeepsCommits ==
    FailedIdx # {} =>
      /\ FailedIdx = {Len(log)}
      /\ pc = "exited"
      /\ exit = "deployFailed"
      /\ previous = Committed(Len(log))
      /\ log[Len(log)].op = "create" => log[Len(log)].key \notin DOMAIN previous
      /\ \A k \in DOMAIN desired :
           Done("start", k) # {} =>
             /\ k \in DOMAIN previous
             /\ previous[k].state = "running"

\* Two keys were to be added; the first is fully up, create of the second
\* failed.
C7_Witness ==
    /\ Cardinality(AddedKeys) = 2
    /\ \E a, b \in AddedKeys :
         /\ a # b
         /\ Done("start", a) # {}
         /\ log[Len(log)].op = "create"
         /\ log[Len(log)].key = b
         /\ ~log[Len(log)].ok
         /\ b \notin DOMAIN previous
         /\ previous[a].state = "running"


\* C8: when Deploy fails after partial progress, the driver still writes
\* the state file with the commits made so far.
C8_PartialStatePersisted ==
    (pc = "exited" /\ exit = "deployFailed") => stateFile = StateToYaml(previous)

\* The keys whose container spec is unchanged and whose files differ.
FilesOnlyKeys ==
    {k \in KeptKeys : /\ prevAtStart[k].image = desired[k].image
                      /\ prevAtStart[k].files # desired[k].files}

\* What C9 promises for key k.
OnlyOneCopy(k) ==
    /\ \A i \in EngineIdx : log[i].key = k => log[i].op = "copy"
    /\ Cardinality({i \in EngineIdx : log[i].key = k}) <= 1
    /\ \A i \in EngineIdx : log[i].key = k => log[i].content = desired[k].files
    /\ k \in DOMAIN previous
    /\ previous[k].id = prevAtStart[k].id
    /\ Succeeded =>
         /\ Done("copy", k) # {}
         /\ previous[k].files = desired[k].files

\* C9 as stated: whenever previous and desired entry of a key differ only in
\* the config files, Deploy issues exactly one copy with the new content for
\* it, no stop, delete, create or start, and keeps the recorded runtime ID.
C9_FilesOnlyAnyState ==
    pc \in {"steps", "save", "exited"} => \A k \in FilesOnlyKeys : OnlyOneCopy(k)

\* C9, amended: the same for a key whose container is observed running.
C9_FilesOnlyWhenRunning ==
    pc \in {"steps", "save", "exited"} =>
      \A k \in FilesOnlyKeys :
        (k \in DOMAIN current /\ current[k] = "running") => OnlyOneCopy(k)

\* A pass that only copied new files into a running container has finished.
C9_Witness ==
    /\ Succeeded
    /\ \E k \in FilesOnlyKeys :
         /\ current[k] = "running"
         /\ OpsOf(k) = <<"copy">>
         /\ previous[k].files # prevAtStart[k].files
         /\ previous[k].id = prevAtStart[k].id

\* C10: after CheckCurrentState every key of current is a key of previous,
\* no key that is only in desired state was introduced, and previous has
\* the keys it had.
C10_CurrentWithinPrevious ==
    /\ DOMAIN current \subseteq DOMAIN prevAtStart
    /\ (pc = "deploy" \/ (pc = "exited" /\ exit = "checkFailed")) =>
         /\ DOMAIN current \subseteq DOMAIN previous
         /\ DOMAIN current \cap (DOMAIN desired \ DOMAIN previous) = {}
         /\ DOMAIN previous = DOMAIN prevAtStart

\* CheckCurrentState has refreshed a key while another key is only desired.
C10_Witness ==
    /\ pc = "deploy"
    /\ DOMAIN current # {}
    /\ DOMAIN desired \ DOMAIN previous # {}


(***************************************************************************)
(* The etcd cluster wrapper: pre-flight, client and membership.            *)
(***************************************************************************)

\* The run has got as far as cluster.Deploy.
InDeploy == pc \notin {"idle", "check", "deploy"} /\ exit # "checkFailed"

\* C11: on a fresh install (previous state empty) or a full teardown
\* (desired state empty) cluster.Deploy obtains no etcd client and issues no
\* MemberAdd or MemberRemove: from Deploy it goes straight to the containers
\* engine.
C11_NoPreflightOnInstallOrTeardown ==
    (kind = "etcd" /\ (DOMAIN prevAtStart = {} \/ DOMAIN desired = {}))
    => /\ pc \notin {"getClient", "removeMembers", "addMembers"}
       /\ \A i \in LogIdx : log[i].op \notin EtcdOps
       /\ InDeploy => EngineInvoked

\* A full teardown of an etcd cluster has deleted a container.
C11_Witness ==
    /\ kind = "etcd"
    /\ DOMAIN prevAtStart # {}
    /\ DOMAIN desired = {}
    /\ \E k \in DOMAIN prevAtStart : Done("delete", k) # {}

\* C12: whenever the wrapper obtains an etcd client, the member through
\* whose host the endpoints are forwarded and the client is built has its
\* key in previous state; it is never a member that is only about to be
\* added.
C12_ClientViaExistingMember ==
    \A i \in LogIdx :
        log[i].op = "getClient" => log[i].key \in DOMAIN prevAtStart

\* The initial-cluster list of the member started by log entry i.
InitialClusterOf(i) ==
    propagateMember(prevAtStart, desired, log[i].key).initialCluster

C15_RemoveByMemberName ==
    (kind = "etcd" /\ DOMAIN desired # {}) =>
      \A i \in LogIdx :
        (log[i].op = "delete" /\ log[i].key \in RemovedKeys)
        => \E j \in Done("MemberRemove", log[i].key) :
             /\ j < i
             /\ log[j].name = MemberName(log[i].key)


\* The failed copies that belong to an HCC.Create: the container was created
\* in the same pass.
FailedCreateCopies ==
    {i \in LogIdx : /\ log[i].op = "copy"
                     /\ ~log[i].ok
                     /\ \E j \in Done("create", log[i].key) : j < i}

C16_NotFoundClearsID ==
    /\ \A id \in ContainerIDs \ DOMAIN dockerd :
         /\ RuntimeStatus(dockerd, id, TRUE).err = Nil
         /\ RuntimeStatus(dockerd, id, TRUE).status = ContainerStatus("", "")
    /\ last.op = "UpdateStatus" =>
         /\ last.reply = "notFound" =>
              /\ last.err = Nil
              /\ ~container.status.nil
              /\ container.status.id = ""
         /\ last.reply = "error" =>
              /\ last.err # Nil
              /\ container.status = last.before.status

\* UpdateStatus has cleared the ID of a container that was removed.
C16_Witness ==
    /\ last.op = "UpdateStatus"
    /\ last.reply = "notFound"
    /\ last.before.status.id \in ContainerIDs
    /\ container.status.id = ""

ContainerCalls ==
    {"Validate", "New", "ToInstance", "Create", "Start", "Stop", "Delete",
     "UpdateStatus"}

IsValid(c) == c.name # "" /\ c.image # "" /\ c.docker

\* C17: Validate accepts a Container exactly when its name and its image are
\* non-empty and a runtime is configured; Validate, New, ToInstance, Create,
\* Start, Stop, Delete and UpdateStatus return an error for any other
\* Container without selecting or contacting a runtime, and leave the
\* Container as it was.
C17_InvalidContainerRefused ==
    /\ last.op = "Validate" => (last.err = Nil <=> IsValid(last.before))
    /\ (last.op \in ContainerCalls /\ ~IsValid(last.before)) =>
         /\ last.err # Nil
         /\ last.calls = <<>>
         /\ container = last.before

\* Delete was refused for a Container without image whose container the
\* daemon still has.
C17_Witness ==
    /\ last.op = "Delete"
    /\ last.before.image = ""
    /\ last.before.name # ""
    /\ last.before.status.id \in DOMAIN dockerd
    /\ last.err # Nil


(***************************************************************************)
(* pkg/helm/release: retries, install or upgrade.                          *)
(***************************************************************************)

IsEtcdError(err) == err # NilError /\ Contains(err, "etcdserver:")

\* The law of the retry wrapper for one run: outs is what the attempts
\* returned, err what the wrapper returned.
RetriedAsPromised(outs, err) ==
    LET n == Len(outs)
    IN  /\ n \in 1..3
        /\ \A i \in 1..(n - 1) : IsEtcdError(outs[i])
        /\ err = outs[n]
        /\ n < 3 => ~IsEtcdError(outs[n])

\* C19: the retry wrapper calls its operation at most 3 times; it returns
\* nil as soon as an attempt succeeds, tries again only after an error
\* whose message contains "etcdserver:", returns any other error at once,
\* and after 3 such errors returns the last one.
C19_RetryOnEtcdError ==
    /\ \A j \in 1..Len(rlast.runs) :
         RetriedAsPromised(rlast.runs[j].outs, rlast.runs[j].err)
    /\ \A fails \in FailureScripts, answer \in {NilError, ErrReleaseNotFound} :
         RetriedAsPromised(retryOnEtcdError(fails, answer).outs,
                           retryOnEtcdError(fails, answer).err)

\* One call gave up after three errors of the etcd server, another
\* succeeded at its third attempt.
C19_Witness ==
    /\ Len(rlast.runs) = 2
    /\ Len(rlast.runs[1].outs) = 3
    /\ rlast.runs[1].outs[3] = NilError
    /\ Len(rlast.runs[2].outs) = 3
    /\ IsEtcdError(rlast.runs[2].err)
    /\ rlast.err # NilError

\* How often method m was entered by the last call.
Entered(m) ==
    Cardinality({i \in 1..Len(rlast.methods) : rlast.methods[i] = m})

\* C20: InstallOrUpgrade enters Upgrade and not Install when the release
\* exists, Install and not Upgrade when it does not; a history lookup that
\* ends with release-not-found means that the release does not exist, not
\* an error; when Exists fails with any other error, InstallOrUpgrade returns
\* an error and enters neither Install nor Upgrade.
C20_InstallXorUpgrade ==
    rlast.op = "InstallOrUpgrade" =>
      /\ rlast.found \in {"yes", "no", "error"}
      /\ rlast.found = "yes" =>
           rlast.before /\ rlast.methods = <<"Exists", "Upgrade">>
      /\ rlast.found = "no" =>
           ~rlast.before /\ rlast.methods = <<"Exists", "Install">>
      /\ rlast.found = "error" =>
           /\ rlast.methods = <<"Exists">>
           /\ rlast.err # NilError
           /\ deployed = rlast.before
      /\ (/\ rlast.runs # <<>>
          /\ rlast.runs[1].outs[Len(rlast.runs[1].outs)] = ErrReleaseNotFound)
         => rlast.found = "no"
      /\ Entered("Install") + Entered("Upgrade") <= 1

\* InstallOrUpgrade installed a release whose lookup had to be retried.
C20_Witness ==
    /\ rlast.op = "InstallOrUpgrade"
    /\ rlast.found = "no"
    /\ Len(rlast.runs) = 2
    /\ Len(rlast.runs[1].outs) > 1
    /\ rlast.err = NilError
    /\ deployed

(***************************************************************************)
(* pkg/helm/release: uninstalling twice.                                   *)
(***************************************************************************)

\* The Helm actions the last call ran.
ActionsRun == {rlast.runs[j].action : j \in 1..Len(rlast.runs)}

\* C21: Uninstall is idempotent.  Uninstall of a release that does not
\* exist runs no uninstall action, leaves the cluster as it was, and
\* returns nil once the lookup has answered that there is no release; an
\* Uninstall that returned nil leaves no release, so an Uninstall that
\* follows it finds none, changes nothing, and returns nil too.
C21_UninstallIdempotent ==
    /\ (rlast.op = "Uninstall" /\ rlast.err = NilError) => ~deployed
    /\ (rlast.op = "Uninstall" /\ ~rlast.before) =>
         /\ "uninstall" \notin ActionsRun
         /\ deployed = rlast.before
         /\ rlast.found \in {"no", "error"}
         /\ rlast.found = "no" => rlast.err = NilError
    /\ (rlast.op = "Uninstall" /\ rlast.uninstalled) => ~rlast.before

\* An Uninstall that removed nothing returned nil right after an Uninstall
\* that returned nil.
C21_Witness ==
    /\ rlast.op = "Uninstall"
    /\ rlast.uninstalled
    /\ rlast.err = NilError
    /\ rlast.found = "no"
    /\ rlast.runs # <<>>
    /\ ~deployed

(***************************************************************************)
(* The driver: the empty state and state.yaml.                             *)
(***************************************************************************)

HasBuilt == cpres.op \in {"Validate", "New"}

\* Component n as the call was given it, and as the call left it.
GivenComponent(n) == cpres.given.components[n]

BuiltComponent(n) == cplane.components[n]

\* C23: after the Controlplane has built its components, a component whose
\* own common block is unset carries the image and the CA certificates of
\* the Controlplane-level common block, and a component whose host is unset
\* carries the SSH configuration of the Controlplane.
C23_ComponentsInherit ==
    HasBuilt =>
      \A n \in Components :
        /\ GivenComponent(n).common.nil =>
             /\ cpres.given.common.image # "" =>
                  BuiltComponent(n).common.image = cpres.given.common.image
             /\ cpres.given.common.kubernetesCACertificate # "" =>
                  BuiltComponent(n).common.kubernetesCACertificate
                    = cpres.given.common.kubernetesCACertificate
             /\ cpres.given.common.frontProxyCACertificate # "" =>
                  BuiltComponent(n).common.frontProxyCACertificate
                    = cpres.given.common.frontProxyCACertificate
        /\ GivenComponent(n).host.nil =>
             BuiltComponent(n).host.ssh = cpres.given.ssh

\* The first non-empty of three strings.
FirstOf(a, b, c) == IF a # "" THEN a ELSE IF b # "" THEN b ELSE c

Observations(prev) == [DOMAIN prev -> {"running", "exited", "missing"}]

\* C29: Validate rejects Destroy when no previous state is given.  With
\* Destroy and a previous state, the resource New returns has an empty
\* desired state and the given state as its previous state, so that the
\* plan of Deploy removes every container deployed before and does nothing
\* else.  Without Destroy the desired state has exactly the keys
\* kube-apiserver, kube-controller-manager and kube-scheduler.
C29_DestroyRemovesAll ==
    /\ (HasBuilt /\ cpres.given.destroy /\ cpres.given.state.nil) =>
         cpres.err # Nil /\ cpres.resource.nil
    /\ (cpres.op = "New" /\ cpres.given.destroy
                         /\ cpres.given.state.value # Empty
                         /\ cpres.given.sound) => cpres.err = Nil
    /\ (cpres.op = "New" /\ cpres.given.destroy /\ cpres.err = Nil) =>
         /\ ~cpres.resource.nil
         /\ cpres.resource.containers
         /\ cpres.resource.desired = Empty
         /\ ~cpres.given.state.nil
         /\ cpres.resource.previous = cpres.given.state.value
         /\ \A cur \in Observations(cpres.resource.previous) :
              \A k \in DOMAIN cpres.resource.previous :
                StepsFor(cpres.resource.previous, cpres.resource.desired,
                         cur, k) \in {RemoveSteps(k), ForgetSteps(k)}
    /\ (cpres.op = "New" /\ ~cpres.given.destroy /\ cpres.err = Nil) =>
         /\ ~cpres.resource.nil
         /\ DOMAIN cpres.resource.desired = Components

\* New returned the resource that removes the controlplane deployed before.
C29_Witness ==
    /\ cpres.op = "New"
    /\ cpres.given.destroy
    /\ cpres.given.state = State(DeployedState)
    /\ cpres.err = Nil
    /\ cpres.resource.desired = Empty
    /\ cpres.resource.previous = DeployedState

(***************************************************************************)
(* pkg/etcd: validation of the configuration.                              *)
(***************************************************************************)

\* What the tests expect to fail: an empty peer address or name, a CA,
\* peer or server certificate or a peer or server key that is not PEM, no
\* host transport.
IsBadMember(m) ==
    \/ m.peerAddress = ""
    \/ m.name = ""
    \/ m.caCertificate = "foo"
    \/ m.peerCertificate = "foo"
    \/ m.serverCertificate = "foo"
    \/ m.peerKey = "foo"
    \/ m.serverKey = "foo"
    \/ m.host = ""

\* C25: a member with an empty peer address, an empty name, a malformed
\* CA, peer or server certificate, a malformed peer or server key or no
\* host transport fails validation.  Cluster.Validate fails if any of its
\* members, as the Cluster completes it, fails; Cluster.New then returns an
\* error and no resource: no desired state is built.
C25_InvalidMemberRejected ==
    /\ \A m \in Members : IsBadMember(m) => MemberNew(m) # Nil
    /\ MemberNew(ValidMember) = Nil
    /\ etcdRes.op \in {"Validate", "New"} =>
         /\ (\E n \in DOMAIN etcdRes.given.members :
                MemberNew(PropagatedMember(etcdRes.given, n)) # Nil)
              => etcdRes.err # Nil
         /\ etcdRes.err # Nil => etcdRes.resource.nil
         /\ etcdCluster = etcdRes.given
    /\ (etcdRes.op = "New" /\ etcdRes.err = Nil) =>
         /\ ~etcdRes.resource.nil
         /\ DOMAIN etcdRes.resource.desired = DOMAIN etcdRes.given.members
         /\ \A n \in DOMAIN etcdRes.given.members :
              ~IsBadMember(PropagatedMember(etcdRes.given, n))

\* New refused a Cluster one of whose two members has a peer key that is
\* not PEM.
C25_Witness ==
    /\ etcdRes.op = "New"
    /\ DOMAIN etcdRes.given.members = Keys
    /\ etcdRes.given.members[1] = ValidMember
    /\ etcdRes.given.members[2] = [ValidMember EXCEPT !.peerKey = "foo"]
    /\ etcdRes.err # Nil
    /\ etcdRes.resource.nil

(***************************************************************************)
(* The Docker runtime: reading paths from a container.                     *)
(***************************************************************************)

\* The paths the last read asked for that got answer a.
Asked(a) ==
    {dlast.asked[i] : i \in {j \in 1..Len(dlast.asked) :
                                dlast.answers[j] = a}}

FilesRead == {dlast.files[i] : i \in 1..Len(dlast.files)}

\* C26: reading paths from a container treats a path that does not exist
\* as absent, not as an error: when every path asked for either exists or
\* does not, the read succeeds and returns the files of the paths that
\* exist and no file for the others; a failure of the runtime or a stream
\* that is no TAR archive makes the read return an error.
C26_AbsentPathIsNoError ==
    dlast.op = "Read" =>
      /\ (Asked("error") \cup Asked("malformed") = {}) =>
           /\ dlast.err = Nil
           /\ FilesRead = Asked("archive")
           /\ FilesRead \cap Asked("absent") = {}
      /\ (Asked("error") \cup Asked("malformed") # {}) =>
           (dlast.err # Nil /\ dlast.files = <<>>)

\* A read of a path that does not exist and of one that does succeeded
\* with the file of the second.
C26_Witness ==
    /\ dlast.op = "Read"
    /\ dlast.asked = <<"/foo", "/bar">>
    /\ dlast.answers = <<"absent", "archive">>
    /\ tree = {"/bar"}
    /\ dlast.err = Nil
    /\ dlast.files = <<"/bar">>

\* The membership calls of updateMembers in the log.
MemberIdx == {i \in LogIdx : log[i].op \in {"MemberRemove", "MemberAdd"}}

ClientIdx == {i \in LogIdx : log[i].op = "getClient"}

\* C28: the endpoint list the etcd client is built from holds exactly one
\* entry "<peerAddress>:2379" for each configured member whose key is in
\* the previous state, and no entry for a member that is only being added
\* or for a key that is only in the previous state.
C28_EndpointsOfExistingMembers ==
    \A i \in ClientIdx :
        /\ \A k \in KeptKeys :
              CopiesIn(PeerAddress(k) \o ":2379", log[i].eps) = 1
        /\ \A k \in AddedKeys \cup RemovedKeys :
              ~BagIn(PeerAddress(k) \o ":2379", log[i].eps)
        /\ BagCardinality(log[i].eps) = Cardinality(KeptKeys)

\* A client was built while one member was kept and another one added.
C28_Witness ==
    /\ ClientIdx # {}
    /\ KeptKeys # {}
    /\ AddedKeys # {}

\* The calls that go through ToInstance.
InstanceOps == {"Start", "Stop", "Delete", "UpdateStatus", "Read", "Copy",
                "Stat"}

\* There is no container behind status s.
NoInstance(s) == s.nil \/ s.id = ""

\* C30: Start, Stop, Delete, UpdateStatus, Read, Copy and Stat on a
\* Container whose Status is nil or has an empty ID return an error, issue
\* no call to the runtime and leave the Container as it was.  A successful
\* Delete leaves a nil Status and an UpdateStatus that found no container
\* an empty ID, and such a Status stays until a Create succeeds.
C30_NoInstanceNoCall ==
    /\ (last.op \in InstanceOps /\ NoInstance(last.before.status))
         => /\ last.err # Nil
            /\ \A i \in 1..Len(last.calls) : last.calls[i] = "select"
            /\ container = last.before
    /\ (last.op = "Delete" /\ last.err = Nil) => container.status.nil
    /\ (last.op = "UpdateStatus" /\ last.reply = "notFound")
         => NoInstance(container.status)
    /\ (NoInstance(last.before.status) /\ ~NoInstance(container.status))
         => (last.op = "Create" /\ last.err = Nil)

\* Start was refused on a status with an empty ID, which only a status
\* query that found no container leaves behind.
C30_Witness ==
    /\ last.op = "Start"
    /\ ~last.before.status.nil
    /\ last.before.status.id = ""
    /\ last.err = "can't create container instance from status without id"
    /\ last.calls = <<"select">>

\* C31: Container.Start and Container.Stop on success replace Status with
\* the status the runtime reports for the same ID; when they return an
\* error, a failed runtime start/stop call included, Status is left as it
\* was.  Container.Delete leaves Status unchanged on failure and sets it to
\* nil on success.
C31_StatusAfterStartStopDelete ==
    /\ (last.op \in {"Start", "Stop"} /\ last.err = Nil)
         => /\ last.before.status.id \in DOMAIN dockerd
            /\ container.status =
                  ContainerStatus(last.before.status.id,
                                  dockerd[last.before.status.id])
            /\ container.status.status =
                  (IF last.op = "Start" THEN "running" ELSE "exited")
    /\ (last.op \in {"Start", "Stop", "Delete"} /\ last.err # Nil)
         => container = last.before
    /\ (last.op = "Delete" /\ last.err = Nil)
         => container = [last.before EXCEPT !.status = NilStatus]

\* A running container was stopped and its Status now says so.
C31_Witness ==
    /\ last.op = "Stop"
    /\ last.err = Nil
    /\ last.before.status.status = "running"
    /\ container.status.status = "exited"

\* The daemon's containers the Container does not refer to.
Unrecorded == DOMAIN dockerd \ {container.status.id}

\* C32: when the runtime create call succeeds and the status read after it
\* fails, Container.Create returns an error and leaves Status as it was:
\* the new container exists, its ID is not recorded, and no delete is
\* issued for it.
C32_CreateThenFailedStatus ==
    (last.op = "Create" /\ last.reply = "error")
    => /\ last.err # Nil
       /\ last.calls = <<"select", "Create", "Status">>
       /\ container = last.before
       /\ \E id \in Unrecorded : dockerd[id] = "created"

\* Create on a Container without a Status failed at the status read and
\* left a container behind.
C32_Witness ==
    /\ last.op = "Create"
    /\ last.reply = "error"
    /\ last.before.status.nil
    /\ container.status.nil
    /\ dockerd # Empty

\* The keys a membership call of kind op was issued for.
KeysOf(op) == {log[i].key : i \in {j \in LogIdx : log[j].op = op}}

\* updateMembers returned without error in this run.
MembersUpdated ==
    /\ kind = "etcd"
    /\ DOMAIN prevAtStart # {}
    /\ DOMAIN desired # {}
    /\ EngineInvoked

\* C33: a key present in both previous and desired state causes no
\* MemberAdd and no MemberRemove.  The keys removed are those of previous
\* minus desired and the keys added those of desired minus previous, all of
\* them once updateMembers has returned without error, and no key is both
\* removed and added.
C33_MembersByKeyDifference ==
    /\ \A k \in KeptKeys :
          k \notin KeysOf("MemberRemove") \cup KeysOf("MemberAdd")
    /\ KeysOf("MemberRemove") \subseteq RemovedKeys
    /\ KeysOf("MemberAdd") \subseteq AddedKeys
    /\ MembersUpdated => /\ KeysOf("MemberRemove") = RemovedKeys
                         /\ KeysOf("MemberAdd") = AddedKeys
    /\ KeysOf("MemberRemove") \cap KeysOf("MemberAdd") = {}

\* A member was added next to one that stays, and the engine took over.
C33_Witness ==
    /\ MembersUpdated
    /\ KeptKeys # {}
    /\ KeysOf("MemberAdd") # {}
    /\ KeysOf("MemberRemove") = {}

\* C34: whenever cluster.Deploy requests an etcd client, which it does with
\* previous and desired state both non-empty, the endpoint list it passes
\* to the client is non-empty, also when the desired members share no key
\* with the previous state.
C34_EndpointsNonEmpty ==
    \A i \in ClientIdx : log[i].eps # EmptyBag

\* C35: Install, Upgrade and Exists first wait for the API server to be
\* reachable; when that wait fails they return the timeout error and run
\* no Helm action, and when loading the chart fails Install and Upgrade
\* return an error before any release action runs.
C35_NoActionWithoutAPIOrChart ==
    /\ (rlast.op \in {"Install", "Upgrade", "Exists"} /\ ~rlast.ping[1])
         => /\ rlast.err = TimedOut
            /\ rlast.runs = <<>>
            /\ deployed = rlast.before
    /\ (rlast.op \in {"Install", "Upgrade"} /\ rlast.ping[1]
           /\ ~rlast.chart)
         => /\ rlast.err # NilError
            /\ rlast.err[1] = "loading chart:"
            /\ rlast.runs = <<>>
            /\ deployed = rlast.before

\* Install reached the API server, could not load the chart and installed
\* nothing.
C35_Witness ==
    /\ rlast.op = "Install"
    /\ rlast.ping = <<TRUE>>
    /\ ~rlast.chart
    /\ rlast.runs = <<>>
    /\ ~deployed

\* The Controlplane as decoded went through buildComponents before this
\* call: a component's server is the API server's, which no user
\* configuration names.
GivenPropagated ==
    cpres.given.components["kube-scheduler"].kubeconfig.server
      = <<"10.0.0.1", 6443>>

\* C36: applying buildComponents twice yields the same configuration as
\* applying it once: after Validate or New another propagation changes
\* nothing, and New, which propagates again after Validate, leaves the
\* Controlplane of a single propagation and builds the components from it,
\* also when it is given a Controlplane that Validate went through before.
C36_BuildComponentsIdempotent ==
    cpres.op \in {"Validate", "New"}
    => /\ buildComponents(buildComponents(cpres.given))
            = buildComponents(cpres.given)
       /\ cplane = buildComponents(cpres.given)
       /\ buildComponents(cplane) = cplane
       /\ GivenPropagated => cplane = cpres.given
       /\ (cpres.op = "New" /\ cpres.err = Nil /\ ~cplane.destroy)
            => cpres.resource.desired
                 = ComponentsState(buildComponents(cpres.given))

\* New built the components of a Controlplane that had been propagated
\* before, by Validate or by an earlier New.
C36_Witness ==
    /\ cpres.op = "New"
    /\ cpres.err = Nil
    /\ GivenPropagated
    /\ ~cpres.resource.nil
    /\ cpres.resource.desired # Empty

\* C37: whenever Controlplane.New returns without error, the resource it
\* returns holds a containers engine, whatever Destroy and State are, so
\* CheckCurrentState, Deploy and StateToYaml never run on an unset engine.
C37_ResourceHasEngine ==
    (cpres.op = "New" /\ cpres.err = Nil)
    => /\ ~cpres.resource.nil
       /\ cpres.resource.containers
       /\ Engine(cpres.resource.previous, cpres.resource.desired)

\* New built the resource of a first installation: no Destroy, no State.
C37_Witness ==
    /\ cpres.op = "New"
    /\ cpres.err = Nil
    /\ ~cpres.given.destroy
    /\ cpres.given.state.nil
    /\ cpres.resource.containers

====
